---- MODULE Spec2Model ----
(***************************************************************************)
(* Governable: digital contracts of a distributed organization.           *)
(*                                                                         *)
(* The module models                                                       *)
(*   - the transaction taxonomy (Taxonomy.validate / validateBundle),      *)
(*   - the execution context (Context.getInput),                           *)
(*   - the contract protocol (BaseContract, Executable and the concrete    *)
(*     contracts CreateAgreement, CommitAgreement, CreateDAO, CreateVote), *)
(*   - the orchestrator DistributedOrganization (synchronize, canExecute,  *)
(*     execute, executeOffline).                                           *)
(*                                                                         *)
(* JavaScript `undefined` is the string "undefined" for scalar fields and  *)
(* the record NoTransaction for transaction-valued fields.  Arrays are     *)
(* sequences; index k of the source is index k + 1 here.                   *)
(***************************************************************************)
EXTENDS Integers, Sequences, FiniteSets, TLC

\* ------------------------------------------------------------------------
\* Bounds of the model
\* ------------------------------------------------------------------------

\* Largest number of operators passed to a contract.
MaxOperators == 3

\* Largest number of metadata entries the ledger returns for the target.
MaxMetadataEntries == 2

\* The longest sequence of the grammars drawn for validate.
MaxEntries == 2

\* The longest list of inner transactions handed to validate.
\* Options in the list of a context.
MaxInputs == 3

\* Calls of validate on one taxonomy and one aggregate.
MaxCalls == 3

\* Inner transactions of an aggregate that is validated more than once.
MaxRevalidated == 4

MaxCandidate == 7
MaxWalked == 3

\* ------------------------------------------------------------------------
\* Program constants
\* ------------------------------------------------------------------------

Revision == 1

Undefined == "undefined"

\* Accounts of the model.  TargetAccount is the deterministic target that
\* the organization derives in its constructor.
TargetAccount == "target"

OtherAccount == "other"

AgreementAccount == "agreement"

OperatorPool == <<"op1", "op2", "op3", "op4">>

\* Address and public key of an account (both are injective encodings).
AddressOf(account) == "T:" \o account

PublicKeyOf(account) == "PK:" \o account

\* The governance asset identifier of the organization (AssetIdentifier.id).
IdentifierId == "9e03faed"

\* ------------------------------------------------------------------------
\* Taxonomy (src/src/kernel/Taxonomy.ts)
\* ------------------------------------------------------------------------

\* Types of a candidate list of transactions.
TypesOf(txes) == [k \in 1..Len(txes) |-> txes[k].type]

\* Taxonomy.getTransactionTypes: the unique types of the sequence.
getTransactionTypes(taxonomy) ==
  { taxonomy.sequence[k].type : k \in 1..Len(taxonomy.sequence) }

\* Taxonomy.constructor: registeredTypes is computed once, from the
\* sequence; repeatableTypes starts empty.
Taxonomy(name, sequence, semantics) ==
  [name |-> name, sequence |-> sequence, semantics |-> semantics,
   registeredTypes |-> getTransactionTypes([sequence |-> sequence]),
   repeatableTypes |-> <<>>]

\* Taxonomy.setAcceptsRepeat: the one method that writes repeatableTypes.
setAcceptsRepeat(taxonomy, type) ==
  IF type \notin taxonomy.registeredTypes THEN taxonomy
  ELSE IF \E k \in 1..Len(taxonomy.repeatableTypes) :
            taxonomy.repeatableTypes[k] = type
    THEN taxonomy
  ELSE [taxonomy EXCEPT !.repeatableTypes = Append(@, type)]

\* Variant of acceptsType that accepts every type.
acceptsTypeAny(taxonomy, type) == TRUE

\* Taxonomy.acceptsType: `!!type` holds for every transaction type.
acceptsType(taxonomy, type) ==
  /\ type # Undefined
  /\ taxonomy.registeredTypes # {}
  /\ type \in taxonomy.registeredTypes

\* Variant of a pass of validateBundle that compares the first entry
\* of the bundle only.
isBundleAtFirstEntry(entries, transactions, cntFound) ==
  /\ Len(entries) >= 1
  /\ cntFound * Len(entries) < Len(transactions)
  /\ transactions[cntFound * Len(entries) + 1].type = entries[1].type

\* One pass of the do-while loop of validateBundle: does a full bundle
\* sit at offset cntFound * |entries| of the transactions?
isBundleAt(entries, transactions, cntFound) ==
  /\ Len(entries) >= 1
  /\ \A i \in 0..(Len(entries) - 1) :
        /\ cntFound * Len(entries) + i < Len(transactions)
        /\ transactions[cntFound * Len(entries) + i + 1].type = entries[i + 1].type

RECURSIVE validateBundleFrom(_, _, _)
validateBundleFrom(entries, transactions, cntFound) ==
  IF isBundleAt(entries, transactions, cntFound)
    THEN validateBundleFrom(entries, transactions, cntFound + 1)
    ELSE cntFound

\* Taxonomy.validateBundle: the number of full occurrences of the bundle.
validateBundle(entries, transactions) ==
  validateBundleFrom(entries, transactions, 0)

\* The bundle prepared by validate for a repeatable entry at index i:
\* the entry itself plus one following entry per further element of
\* bundleWith (the loop starts at b = 1, so the bundle has one entry
\* also when bundleWith is empty).
bundleOf(taxonomy, i) ==
  [b \in 1..(IF Len(taxonomy.semantics[i].bundleWith) > 1
               THEN Len(taxonomy.semantics[i].bundleWith) ELSE 1) |->
     IF i + b <= Len(taxonomy.sequence)
       THEN taxonomy.sequence[i + b]
       ELSE [type |-> Undefined, required |-> FALSE]]

\* Has index i a semantic ruleset that is repeatable?
hasRepeatableRule(taxonomy, i) ==
  /\ i \in DOMAIN taxonomy.semantics
  /\ taxonomy.semantics[i].repeatable

\* Variant of the structure loop that asks of a required entry only
\* that a transaction sits at the cursor.
RECURSIVE validateWalkAnyType(_, _, _, _, _)
validateWalkAnyType(taxonomy, ctrTxes, i, skip, bundled) ==
  IF i >= Len(taxonomy.sequence) THEN TRUE
  ELSE
    LET entry  == taxonomy.sequence[i + 1]
        cursor == i - skip + bundled
        hasTx  == cursor >= 0 /\ cursor < Len(ctrTxes)
    IN  IF entry.required = FALSE
          THEN IF (~hasTx) \/ ctrTxes[cursor + 1].type # entry.type
                 THEN validateWalkAnyType(taxonomy, ctrTxes, i + 1, skip + 1, bundled)
                 ELSE validateWalkAnyType(taxonomy, ctrTxes, i + 1, skip, bundled)
        ELSE IF ~hasTx THEN FALSE
        ELSE validateWalkAnyType(taxonomy, ctrTxes, i + 1, skip, bundled)

\* Variant of the structure loop that goes on past a bundle that was
\* found zero times.
RECURSIVE validateWalkZeroTolerant(_, _, _, _, _)
validateWalkZeroTolerant(taxonomy, ctrTxes, i, skip, bundled) ==
  IF i >= Len(taxonomy.sequence) THEN TRUE
  ELSE
    LET entry  == taxonomy.sequence[i + 1]
        cursor == i - skip + bundled
        hasTx  == cursor >= 0 /\ cursor < Len(ctrTxes)
    IN  IF entry.required = FALSE
          THEN IF (~hasTx) \/ ctrTxes[cursor + 1].type # entry.type
                 THEN validateWalkZeroTolerant(taxonomy, ctrTxes, i + 1,
                                               skip + 1, bundled)
                 ELSE validateWalkZeroTolerant(taxonomy, ctrTxes, i + 1,
                                               skip, bundled)
        ELSE IF hasRepeatableRule(taxonomy, i)
          THEN LET bundle == bundleOf(taxonomy, i)
                   trxes  == IF hasTx THEN SubSeq(ctrTxes, cursor + 1, Len(ctrTxes))
                                      ELSE <<>>
                   numOccurences == validateBundle(bundle, trxes)
               IN  validateWalkZeroTolerant(taxonomy, ctrTxes,
                                            i + Len(bundle) + 1, skip,
                                            bundled + numOccurences * Len(bundle))
        ELSE IF (~hasTx) \/ entry.type # ctrTxes[cursor + 1].type
          THEN FALSE
          ELSE validateWalkZeroTolerant(taxonomy, ctrTxes, i + 1, skip, bundled)

\* The structure loop of validate, from index i with counters skip and
\* bundled.  After a bundle the index is moved by bundle.length and then
\* incremented by the loop itself.
RECURSIVE validateWalk(_, _, _, _, _)
validateWalk(taxonomy, ctrTxes, i, skip, bundled) ==
  IF i >= Len(taxonomy.sequence) THEN TRUE
  ELSE
    LET entry  == taxonomy.sequence[i + 1]
        cursor == i - skip + bundled
        hasTx  == cursor >= 0 /\ cursor < Len(ctrTxes)
    IN  IF entry.required = FALSE
          THEN IF (~hasTx) \/ ctrTxes[cursor + 1].type # entry.type
                 THEN validateWalk(taxonomy, ctrTxes, i + 1, skip + 1, bundled)
                 ELSE validateWalk(taxonomy, ctrTxes, i + 1, skip, bundled)
        ELSE IF hasRepeatableRule(taxonomy, i)
          THEN LET bundle == bundleOf(taxonomy, i)
                   trxes  == IF hasTx THEN SubSeq(ctrTxes, cursor + 1, Len(ctrTxes))
                                      ELSE <<>>
                   numOccurences == validateBundle(bundle, trxes)
               IN  IF numOccurences = 0 THEN FALSE
                   ELSE validateWalk(taxonomy, ctrTxes,
                                     i + Len(bundle) + 1, skip,
                                     bundled + numOccurences * Len(bundle))
        ELSE IF (~hasTx) \/ entry.type # ctrTxes[cursor + 1].type
          THEN FALSE
          ELSE validateWalk(taxonomy, ctrTxes, i + 1, skip, bundled)

\* One pass of the structure loop: the index i, the cursor, the branch
\* taken, the length of the bundle and the occurrences counted (both 0
\* outside the repeatable branch).
WalkStep(i, cursor, branch, size, numOccurences) ==
  [i |-> i, cursor |-> cursor, branch |-> branch, size |-> size,
   numOccurences |-> numOccurences]

\* The passes of the structure loop of validate, in order, up to the
\* pass that returns false or the end of the loop.
RECURSIVE walkSteps(_, _, _, _, _)
walkSteps(taxonomy, ctrTxes, i, skip, bundled) ==
  IF i >= Len(taxonomy.sequence) THEN <<>>
  ELSE
    LET entry  == taxonomy.sequence[i + 1]
        cursor == i - skip + bundled
        hasTx  == cursor >= 0 /\ cursor < Len(ctrTxes)
    IN  IF entry.required = FALSE
          THEN <<WalkStep(i, cursor, "optional", 0, 0)>> \o
               (IF (~hasTx) \/ ctrTxes[cursor + 1].type # entry.type
                  THEN walkSteps(taxonomy, ctrTxes, i + 1, skip + 1, bundled)
                  ELSE walkSteps(taxonomy, ctrTxes, i + 1, skip, bundled))
        ELSE IF hasRepeatableRule(taxonomy, i)
          THEN LET bundle == bundleOf(taxonomy, i)
                   trxes  == IF hasTx THEN SubSeq(ctrTxes, cursor + 1, Len(ctrTxes))
                                      ELSE <<>>
                   numOccurences == validateBundle(bundle, trxes)
               IN  <<WalkStep(i, cursor, "repeatable", Len(bundle), numOccurences)>> \o
                   (IF numOccurences = 0 THEN <<>>
                    ELSE walkSteps(taxonomy, ctrTxes,
                                   i + Len(bundle) + 1, skip,
                                   bundled + numOccurences * Len(bundle)))
        ELSE <<WalkStep(i, cursor, "required", 0, 0)>> \o
             (IF (~hasTx) \/ entry.type # ctrTxes[cursor + 1].type
                THEN <<>>
                ELSE walkSteps(taxonomy, ctrTxes, i + 1, skip, bundled))

\* Variant of validate that walks an empty contract as well.
validateWithoutBoundary(taxonomy, ctrTxes) ==
  IF taxonomy.registeredTypes = {} THEN FALSE
  ELSE IF \E k \in 1..Len(ctrTxes) : ~acceptsType(taxonomy, ctrTxes[k].type)
    THEN FALSE
  ELSE validateWalk(taxonomy, ctrTxes, 0, 0, 0)

\* Variant of validate whose type loop looks at the transactions the
\* sequence has an index for, and not at those behind them.
validateTypesInReach(taxonomy, ctrTxes) ==
  IF Len(ctrTxes) = 0 THEN FALSE
  ELSE IF taxonomy.registeredTypes = {} THEN FALSE
  ELSE IF \E k \in 1..Len(ctrTxes) :
            /\ k <= Len(taxonomy.sequence)
            /\ ~acceptsType(taxonomy, ctrTxes[k].type)
    THEN FALSE
  ELSE validateWalk(taxonomy, ctrTxes, 0, 0, 0)

\* Variant of validate with a consumption check: an aggregate with more
\* transactions than the sequence has entries is refused.
validateConsumed(taxonomy, ctrTxes) ==
  IF Len(ctrTxes) = 0 THEN FALSE
  ELSE IF taxonomy.registeredTypes = {} THEN FALSE
  ELSE IF \E k \in 1..Len(ctrTxes) : ~acceptsType(taxonomy, ctrTxes[k].type)
    THEN FALSE
  ELSE IF Len(ctrTxes) > Len(taxonomy.sequence) THEN FALSE
  ELSE validateWalk(taxonomy, ctrTxes, 0, 0, 0)

\* Taxonomy.validate on the inner transactions of a contract.
validate(taxonomy, ctrTxes) ==
  IF Len(ctrTxes) = 0 THEN FALSE
  ELSE IF taxonomy.registeredTypes = {} THEN FALSE
  ELSE IF \E k \in 1..Len(ctrTxes) : ~acceptsType(taxonomy, ctrTxes[k].type)
    THEN FALSE
  ELSE validateWalk(taxonomy, ctrTxes, 0, 0, 0)

\* ------------------------------------------------------------------------
\* Contract options and execution context (ContractOption, Context)
\* ------------------------------------------------------------------------

MetadataFields == <<"name", "code", "website", "contact", "description", "image">>

\* A MetadataBucket whose fields in `filled` are non-empty; each of
\* them holds a value of its own.
BucketOf(filled) ==
  [f \in { MetadataFields[k] : k \in 1..Len(MetadataFields) } |->
     IF f \in filled THEN "my " \o f ELSE ""]

EmptyBucket == BucketOf({})

\* Values of contract options.  Every value has the same shape so that
\* values of different kinds can sit in one list; `kind` tells which
\* field carries the value ("null" is JavaScript null).
NullValue ==
  [kind |-> "null", account |-> Undefined, accounts |-> <<>>,
   bucket |-> EmptyBucket, text |-> ""]

AccountValue(a) == [NullValue EXCEPT !.kind = "account", !.account = a]

AccountsValue(as) == [NullValue EXCEPT !.kind = "accounts", !.accounts = as]

BucketValue(b) == [NullValue EXCEPT !.kind = "bucket", !.bucket = b]

TextValue(t) == [NullValue EXCEPT !.kind = "text", !.text = t]

ContractOption(name, value) == [name |-> name, value |-> value]

\* Index of the first option called `name`, 0 when there is none
\* (Array.prototype.find).
RECURSIVE findFrom(_, _, _)
findFrom(argv, name, k) ==
  IF k > Len(argv) THEN 0
  ELSE IF argv[k].name = name THEN k
  ELSE findFrom(argv, name, k + 1)

\* Variant of getInput in which the last option called `name` wins.
getInputLast(argv, name, defaultValue) ==
  LET hits == { k \in 1..Len(argv) : argv[k].name = name }
  IN  IF hits = {} THEN defaultValue
      ELSE argv[CHOOSE k \in hits : \A h \in hits : h <= k].value

\* Context.getInput: the value of the first option called `name`, or the
\* default.  An undefined argv and an empty argv both give the default.
getInput(argv, name, defaultValue) ==
  IF Len(argv) = 0 THEN defaultValue
  ELSE LET it == findFrom(argv, name, 1)
       IN  IF it # 0 THEN argv[it].value ELSE defaultValue

\* Context.setInput: appends, also when the name is already present.
setInput(argv, name, value) == Append(argv, ContractOption(name, value))

\* ------------------------------------------------------------------------
\* Transactions
\* ------------------------------------------------------------------------

\* JavaScript undefined where a transaction is expected.
NoTransaction ==
  [type |-> Undefined, innerTransactions |-> <<>>, confirmed |-> FALSE]

\* An embedded transaction.  `proof` is defined for secret proofs only;
\* `message` is the message of a transfer and the value of an account
\* metadata transaction; `amount` is the approval delta of a multisig
\* modification and the delta of a supply change.
InnerTx(type, signer, recipient, message, proof, amount) ==
  [type |-> type, signer |-> signer, recipient |-> recipient,
   message |-> message, proof |-> proof, amount |-> amount]

NoMessage == "<no message>"

EmptyMessage == ""

\* Transaction.toAggregate(signer) for every transaction of a list.
toAggregate(transactions, signers) ==
  [k \in 1..Len(transactions) |->
     [transactions[k] EXCEPT !.signer =
        IF k <= Len(signers) THEN signers[k] ELSE Undefined]]

\* ------------------------------------------------------------------------
\* Contracts (BaseContract, Executable and the concrete contracts)
\* ------------------------------------------------------------------------

\* The contracts whose implementation is part of the sources.
ContractNames == {"CreateAgreement", "CommitAgreement", "CreateDAO", "CreateVote"}

\* The sources hold a second CommitAgreement class, whose policy admits
\* operators only.  A dispatch by name never reaches it; a test can build
\* it like any other contract.
OperatorsCommitAgreement == "CommitAgreement (operators only)"

\* The contract classes a test can build.
ContractClasses == ContractNames \cup {OperatorsCommitAgreement}

\* Executable.arguments of each contract: the required arguments.
arguments(name) ==
  CASE name = "CreateAgreement" -> <<"password", "mnemonic", "path", "operators">>
    [] name = "CommitAgreement" -> <<"target", "agreement">>
    [] name = OperatorsCommitAgreement -> <<"agreement">>
    [] name = "CreateDAO"       -> <<"target", "operators", "metadata">>
    [] name = "CreateVote"      -> <<"operator">>
    [] OTHER                    -> <<>>

\* Kebab-case name used in the descriptor of each contract.
kebabName(name) ==
  CASE name = "CreateAgreement" -> "create-agreement"
    [] name = "CommitAgreement" -> "commit-agreement"
    [] name = OperatorsCommitAgreement -> "commit-agreement"
    [] name = "CreateDAO"       -> "create-dao"
    [] name = "CreateVote"      -> "create-vote"
    [] OTHER                    -> "vote"

\* Variant of the descriptor that leaves the revision out.
descriptorWithoutRevision(c) == "Governable:" \o kebabName(c.name) \o ":" \o c.id

\* Executable.descriptor of a contract.
descriptor(c) ==
  "Governable(v" \o ToString(c.revision) \o ")" \o ":" \o kebabName(c.name)
     \o ":" \o c.id

\* Variant of the assertion that looks at the first field only.
firstMissingHeadOnly(argv, fields, i) ==
  IF i > Len(fields) THEN 0
  ELSE IF getInput(argv, fields[i], NullValue).kind = "null" THEN i
  ELSE 0

\* BaseContract.assertHasMandatoryArguments: index of the first field of
\* `fields` whose input is null, 0 when every field has an input.
RECURSIVE firstMissing(_, _, _)
firstMissing(argv, fields, i) ==
  IF i > Len(fields) THEN 0
  ELSE IF getInput(argv, fields[i], NullValue).kind = "null" THEN i
  ELSE firstMissing(argv, fields, i + 1)

\* Variant of assertHasMandatoryArguments that looks for the fields in
\* the argv it is given.
assertHasMandatoryArgumentsInArgv(c, argv, fields) ==
  firstMissing(argv, fields, 1) = 0

\* The method takes the argv of the call and does not read it: the
\* fields are looked up in the inputs of the context.
assertHasMandatoryArguments(c, argv, fields) ==
  firstMissing(c.argv, fields, 1) = 0

\* `isOperator` of the operators-only CommitAgreement, as the JavaScript
\* value `this.operators.length && this.operators.some(...)`: the number
\* 0 for an empty list, a boolean otherwise.
isOperator(c, actor) ==
  IF Len(c.operators) = 0 THEN "0"
  ELSE IF \E k \in 1..Len(c.operators) : c.operators[k] = AddressOf(actor)
    THEN "true"
  ELSE "false"

\* Variant of the policy in which CreateDAO forgets the agreement.
policyWithoutAgreementGate(c, actor) ==
  CASE c.name = "CreateAgreement" ->
         c.agreement = NoTransaction
    [] c.name = "CommitAgreement" ->
         /\ c.agreement = NoTransaction
         /\ AddressOf(getInput(c.argv, "target", AccountValue(Undefined)).account)
              = AddressOf(c.target)
    [] c.name = "CreateDAO" ->
         AddressOf(getInput(c.argv, "target", AccountValue(Undefined)).account)
              = AddressOf(c.target)
    [] c.name = OperatorsCommitAgreement ->
         isOperator(c, actor) = "true" /\ c.agreement = NoTransaction
    [] c.name = "CreateVote" -> TRUE
    [] OTHER -> AddressOf(actor) = AddressOf(c.target)

\* Variant of the policy in which no contract overrides the default of
\* Executable ("owner only").
policyOwnerOnly(c, actor) == AddressOf(actor) = AddressOf(c.target)

\* Variant of the policy in which CreateDAO does not compare the targets.
policyAnyTarget(c, actor) ==
  CASE c.name = "CreateAgreement" ->
         c.agreement = NoTransaction
    [] c.name = "CommitAgreement" ->
         /\ c.agreement = NoTransaction
         /\ AddressOf(getInput(c.argv, "target", AccountValue(Undefined)).account)
              = AddressOf(c.target)
    [] c.name = "CreateDAO" -> c.agreement # NoTransaction
    [] c.name = OperatorsCommitAgreement ->
         isOperator(c, actor) = "true" /\ c.agreement = NoTransaction
    [] c.name = "CreateVote" -> TRUE
    [] OTHER -> AddressOf(actor) = AddressOf(c.target)

\* Variant of the policy in which CreateAgreement does not look at the
\* agreement.
policyAgreementAnyPhase(c, actor) ==
  CASE c.name = "CreateAgreement" -> TRUE
    [] c.name = "CommitAgreement" ->
         /\ c.agreement = NoTransaction
         /\ AddressOf(getInput(c.argv, "target", AccountValue(Undefined)).account)
              = AddressOf(c.target)
    [] c.name = "CreateDAO" ->
         /\ c.agreement # NoTransaction
         /\ AddressOf(getInput(c.argv, "target", AccountValue(Undefined)).account)
              = AddressOf(c.target)
    [] c.name = OperatorsCommitAgreement ->
         isOperator(c, actor) = "true" /\ c.agreement = NoTransaction
    [] c.name = "CreateVote" -> TRUE
    [] OTHER -> AddressOf(actor) = AddressOf(c.target)

\* The authorization policy of each contract, evaluated after the
\* mandatory arguments were asserted.
policy(c, actor) ==
  CASE c.name = "CreateAgreement" ->
         c.agreement = NoTransaction
    [] c.name = "CommitAgreement" ->
         /\ c.agreement = NoTransaction
         /\ AddressOf(getInput(c.argv, "target", AccountValue(Undefined)).account)
              = AddressOf(c.target)
    [] c.name = "CreateDAO" ->
         /\ c.agreement # NoTransaction
         /\ AddressOf(getInput(c.argv, "target", AccountValue(Undefined)).account)
              = AddressOf(c.target)
    [] c.name = OperatorsCommitAgreement ->
         isOperator(c, actor) = "true" /\ c.agreement = NoTransaction
    [] c.name = "CreateVote" -> TRUE
    [] OTHER -> AddressOf(actor) = AddressOf(c.target)

\* The result of a call on a contract: `error` names the failure raised
\* ("none" when the call returns), `status` is AllowanceResult.status,
\* `transactions` the wrapped list and `trace` the steps that were run.
\* `status` is the truthiness of AllowanceResult.status and `value` the
\* JavaScript value it holds.
Outcome(error, status, transactions, trace) ==
  [error |-> error, status |-> status, transactions |-> transactions,
   trace |-> trace, value |-> IF status THEN "true" ELSE "false"]

\* The JavaScript value a policy hands to `new AllowanceResult(...)`: the
\* operand that decides `a && b`, which is `a` itself when `a` is falsy.
statusValue(c, actor) ==
  IF c.name = OperatorsCommitAgreement /\ isOperator(c, actor) = "0" THEN "0"
  ELSE IF policy(c, actor) THEN "true"
  ELSE "false"

\* Executable.canExecute and its overrides.
canExecute(c, actor, argv) ==
  IF ~assertHasMandatoryArguments(c, argv, arguments(c.name))
    THEN Outcome("MissingArgument", FALSE, <<>>, <<"assertHasMandatoryArguments">>)
    ELSE [Outcome("none", policy(c, actor), <<>>,
                  <<"assertHasMandatoryArguments", "policy">>)
            EXCEPT !.value = statusValue(c, actor)]

\* Accountable.derive on the agreement path read by CreateAgreement.  The
\* path is handed to the key provider as it is; what the provider does
\* with the default path '' is its own business, so the instance carries
\* the answer (emptyPathDerives).
canDerive(c) ==
  \/ getInput(c.argv, "agreementPath", TextValue("")).text # ""
  \/ c.emptyPathDerives

\* CreateAgreement.transactions
CreateAgreementTransactions(c) ==
  LET operators == getInput(c.argv, "operators", AccountsValue(<<>>)).accounts
      agreement == AgreementAccount
      transactions == <<
        InnerTx("MULTISIG_ACCOUNT_MODIFICATION", Undefined, Undefined, NoMessage,
                Undefined, Len(operators)),
        InnerTx("SECRET_LOCK", Undefined, AddressOf(c.target), NoMessage,
                Undefined, 1),
        InnerTx("TRANSFER", Undefined, AddressOf(agreement),
                PublicKeyOf(c.target), Undefined, 0),
        InnerTx("TRANSFER", Undefined, AddressOf(agreement),
                descriptor(c), Undefined, 0) >>
      signers == << agreement,
                    IF Len(operators) >= 1 THEN operators[1] ELSE Undefined,
                    agreement, agreement >>
  IN  toAggregate(transactions, signers)

\* Variant of the transactions of CommitAgreement whose second transfer
\* carries the address of the target and not its public key.
CommitAgreementTransactionsWithAddress(c) ==
  LET agreement == getInput(c.argv, "agreement", AccountValue(Undefined)).account
      transactions == <<
        InnerTx("SECRET_PROOF", Undefined, AddressOf(c.target), NoMessage,
                c.id, 0),
        InnerTx("TRANSFER", Undefined, AddressOf(agreement),
                AddressOf(c.target), Undefined, 0),
        InnerTx("TRANSFER", Undefined, AddressOf(agreement),
                descriptor(c), Undefined, 0) >>
      signers == << agreement, agreement, agreement >>
  IN  toAggregate(transactions, signers)


\* CommitAgreement.transactions
CommitAgreementTransactions(c) ==
  LET agreement == getInput(c.argv, "agreement", AccountValue(Undefined)).account
      transactions == <<
        InnerTx("SECRET_PROOF", Undefined, AddressOf(c.target), NoMessage,
                c.id, 0),
        InnerTx("TRANSFER", Undefined, AddressOf(agreement),
                PublicKeyOf(c.target), Undefined, 0),
        InnerTx("TRANSFER", Undefined, AddressOf(agreement),
                descriptor(c), Undefined, 0) >>
      signers == << agreement, agreement, agreement >>
  IN  toAggregate(transactions, signers)

\* The optional AccountMetadataTransactions of CreateDAO: one per
\* non-empty field of the bucket, in field order.
RECURSIVE metadataTransactions(_, _, _)
metadataTransactions(c, metadata, k) ==
  IF k > Len(MetadataFields) THEN <<>>
  ELSE (IF metadata[MetadataFields[k]] # ""
          THEN << InnerTx("ACCOUNT_METADATA", Undefined, AddressOf(c.target),
                          metadata[MetadataFields[k]], Undefined, 0) >>
          ELSE <<>>)
       \o metadataTransactions(c, metadata, k + 1)

\* Variant of the loop that builds the address restrictions of all
\* operators first and their transfers afterwards.
operatorTransactionsGrouped(c, operators, i) ==
  [k \in 1..Len(operators) |->
     InnerTx("MOSAIC_ADDRESS_RESTRICTION", Undefined,
             AddressOf(operators[k]), NoMessage, Undefined, 2)]
  \o [k \in 1..Len(operators) |->
     InnerTx("TRANSFER", Undefined, AddressOf(operators[k]),
             EmptyMessage, Undefined, 1)]

\* The loop of CreateDAO over the operators: an address restriction and
\* a transfer of one governance asset per operator.
RECURSIVE operatorTransactions(_, _, _)
operatorTransactions(c, operators, i) ==
  IF i > Len(operators) THEN <<>>
  ELSE << InnerTx("MOSAIC_ADDRESS_RESTRICTION", Undefined,
                  AddressOf(operators[i]), NoMessage, Undefined, 2),
          InnerTx("TRANSFER", Undefined, AddressOf(operators[i]),
                  EmptyMessage, Undefined, 1) >>
       \o operatorTransactions(c, operators, i + 1)

\* CreateDAO.transactions
CreateDAOTransactions(c) ==
  LET operators == getInput(c.argv, "operators", AccountsValue(<<>>)).accounts
      metadata  == getInput(c.argv, "metadata", BucketValue(EmptyBucket)).bucket
      transactions ==
        << InnerTx("MULTISIG_ACCOUNT_MODIFICATION", Undefined, Undefined,
                   NoMessage, Undefined, Len(operators)),
           InnerTx("MOSAIC_DEFINITION", Undefined, Undefined, NoMessage,
                   Undefined, 0),
           InnerTx("MOSAIC_SUPPLY_CHANGE", Undefined, Undefined, NoMessage,
                   Undefined, Len(operators)),
           InnerTx("ACCOUNT_MOSAIC_RESTRICTION", Undefined, Undefined,
                   NoMessage, Undefined, 0),
           InnerTx("MOSAIC_GLOBAL_RESTRICTION", Undefined, Undefined,
                   NoMessage, Undefined, 2),
           InnerTx("MOSAIC_ADDRESS_RESTRICTION", Undefined,
                   AddressOf(c.target), NoMessage, Undefined, 1),
           InnerTx("MOSAIC_METADATA", Undefined, AddressOf(c.target),
                   c.id, Undefined, 0),
           InnerTx("ACCOUNT_METADATA", Undefined, AddressOf(c.target),
                   c.id, Undefined, 0) >>
        \o metadataTransactions(c, metadata, 1)
        \o operatorTransactions(c, operators, 1)
        \o << InnerTx("TRANSFER", Undefined, AddressOf(c.target),
                      descriptor(c), Undefined, 0) >>
      signers == [k \in 1..Len(transactions) |-> c.target]
  IN  toAggregate(transactions, signers)

\* CreateVote.transactions: the contract builds no transaction.
CreateVoteTransactions(c) == toAggregate(<<>>, <<>>)

\* The `transactions` getter of a contract.
transactions(c) ==
  CASE c.name = "CreateAgreement" -> CreateAgreementTransactions(c)
    [] c.name = "CommitAgreement" -> CommitAgreementTransactions(c)
    [] c.name = OperatorsCommitAgreement -> CommitAgreementTransactions(c)
    [] c.name = "CreateDAO"       -> CreateDAOTransactions(c)
    [] OTHER                      -> CreateVoteTransactions(c)

\* Does the `transactions` getter raise?  Only CreateAgreement derives an
\* account while it builds its list.
transactionsRaise(c) == c.name = "CreateAgreement" /\ ~canDerive(c)

\* Variant of the allowance assertion that lets a refusal pass.
assertExecutionAllowanceLenient(c, actor, argv) ==
  LET authResult == canExecute(c, actor, argv)
  IN  IF authResult.error # "none"
        THEN Outcome(authResult.error, FALSE, <<>>, <<"canExecute">>)
      ELSE Outcome("none", TRUE, <<>>, <<"canExecute">>)

\* BaseContract.assertExecutionAllowance
assertExecutionAllowance(c, actor, argv) ==
  LET authResult == canExecute(c, actor, argv)
  IN  IF authResult.error # "none"
        THEN Outcome(authResult.error, FALSE, <<>>, <<"canExecute">>)
      ELSE IF ~authResult.status
        THEN Outcome("OperationForbidden", FALSE, <<>>, <<"canExecute">>)
      ELSE Outcome("none", TRUE, <<>>, <<"canExecute">>)

\* Variant of prepare without the sanity check.
prepareUnchecked(c) ==
  IF transactionsRaise(c)
    THEN Outcome("DerivationFailure", TRUE, <<>>, <<"transactions">>)
  ELSE Outcome("none", TRUE, transactions(c),
               <<"transactions", "createBonded">>)

\* Executable.prepare: reads the `transactions` getter for the sanity
\* check and once more for the aggregate bonded transaction.
prepare(c) ==
  IF transactionsRaise(c)
    THEN Outcome("DerivationFailure", TRUE, <<>>, <<"transactions">>)
  ELSE IF Len(transactions(c)) = 0
    THEN Outcome("EmptyContract", TRUE, <<>>, <<"transactions">>)
  ELSE Outcome("none", TRUE, transactions(c),
               <<"transactions", "transactions", "createBonded">>)

\* Executable.execute
execute(c, actor, argv) ==
  LET allowance == assertExecutionAllowance(c, actor, argv)
  IN  IF allowance.error # "none" THEN allowance
      ELSE LET contract == prepare(c)
           IN  Outcome(contract.error, TRUE, contract.transactions,
                       allowance.trace \o contract.trace)

\* The aggregate Executable.prepare creates around the transactions of
\* an outcome (createBonded), before the ledger has seen it.
AggregateOf(outcome) ==
  [type |-> IF \E k \in 1..Len(outcome.trace) : outcome.trace[k] = "createBonded"
              THEN "AGGREGATE_BONDED" ELSE Undefined,
   innerTransactions |-> outcome.transactions,
   confirmed |-> FALSE]

\* The same aggregate as the ledger hands it out once it is confirmed:
\* it carries transactionInfo.
Confirmed(aggregate) == [aggregate EXCEPT !.confirmed = TRUE]

\* The taxonomy without semantic rules.
NoSemantics == [i \in {} |-> [bundleWith |-> <<>>, repeatable |-> FALSE,
                              minOccurences |-> 0, maxOccurences |-> 0]]

Entry(type, required) == [type |-> type, required |-> required]

\* CommitAgreement.specification
CommitAgreementSpecification ==
  Taxonomy("Governable.CommitAgreement",
           << Entry("SECRET_PROOF", TRUE), Entry("TRANSFER", TRUE),
              Entry("TRANSFER", TRUE) >>,
           NoSemantics)

\* CreateDAO.specification
CreateDAOSpecification ==
  Taxonomy("Governable.CreateDAO", <<
     Entry("MULTISIG_ACCOUNT_MODIFICATION", TRUE),
     Entry("MOSAIC_DEFINITION", TRUE),
     Entry("MOSAIC_SUPPLY_CHANGE", TRUE),
     Entry("ACCOUNT_MOSAIC_RESTRICTION", TRUE),
     Entry("MOSAIC_GLOBAL_RESTRICTION", TRUE),
     Entry("MOSAIC_ADDRESS_RESTRICTION", TRUE),
     Entry("MOSAIC_METADATA", TRUE),
     Entry("ACCOUNT_METADATA", TRUE),
     Entry("ACCOUNT_METADATA", FALSE),
     Entry("ACCOUNT_METADATA", FALSE),
     Entry("ACCOUNT_METADATA", FALSE),
     Entry("ACCOUNT_METADATA", FALSE),
     Entry("ACCOUNT_METADATA", FALSE),
     Entry("ACCOUNT_METADATA", FALSE),
     Entry("MOSAIC_ADDRESS_RESTRICTION", TRUE),
     Entry("TRANSFER", TRUE),
     Entry("TRANSFER", TRUE) >>,
   (14 :> [bundleWith |-> <<15>>, repeatable |-> TRUE,
                         minOccurences |-> 1, maxOccurences |-> 0]))

\* The contracts that define their specification in the sources.
SpecifiedContracts == {"CommitAgreement", "CreateDAO"}

\* The `specification` getter of a contract.
specification(name) ==
  IF name = "CommitAgreement" THEN CommitAgreementSpecification
                              ELSE CreateDAOSpecification

\* ------------------------------------------------------------------------
\* Services read by synchronize (AgreementService, MultisigService,
\* MetadataService)
\* ------------------------------------------------------------------------

\* Variant of the verification that does not look at the descriptor.
verifyAuthenticityWithoutDescriptor(revision, id, target, agreementTx) ==
  IF agreementTx = NoTransaction \/ agreementTx.type # "AGGREGATE_BONDED"
    THEN "false"
  ELSE IF Len(agreementTx.innerTransactions) # 3 THEN "false"
  ELSE IF ~agreementTx.confirmed THEN "false"
  ELSE
    LET secretProof == agreementTx.innerTransactions[1]
        targetAgree == agreementTx.innerTransactions[2]
    IN  IF secretProof.proof # id THEN "false"
        ELSE IF targetAgree.message = NoMessage THEN "TypeError"
        ELSE IF targetAgree.message # PublicKeyOf(target) THEN "false"
        ELSE "true"

\* AgreementService.verifyAuthenticity: "true" or "false", or "TypeError"
\* when the payload of a transaction without message is read.
verifyAuthenticity(revision, id, target, agreementTx) ==
  IF agreementTx = NoTransaction \/ agreementTx.type # "AGGREGATE_BONDED"
    THEN "false"
  ELSE IF Len(agreementTx.innerTransactions) = 0 THEN "false"
  ELSE IF Len(agreementTx.innerTransactions) # 3 THEN "false"
  ELSE IF ~agreementTx.confirmed THEN "false"
  ELSE
    LET secretProof == agreementTx.innerTransactions[1]
        targetAgree == agreementTx.innerTransactions[2]
        execProof   == agreementTx.innerTransactions[3]
        commitDescriptor ==
          "Governable(v" \o ToString(revision) \o ")" \o ":commit-agreement:" \o id
    IN  IF secretProof.proof # id THEN "false"
        ELSE IF targetAgree.message = NoMessage THEN "TypeError"
        ELSE IF targetAgree.message # PublicKeyOf(target) THEN "false"
        ELSE IF execProof.message = NoMessage THEN "TypeError"
        ELSE IF execProof.message # commitDescriptor THEN "false"
        ELSE "true"

\* MultisigAccountInfo, of which synchronize reads the cosignatories.
MultisigAccountInfo(cosignatories) == [cosignatoryAddresses |-> cosignatories]

\* A level of a multi-signature graph (an entry of the map from level
\* numbers to lists of MultisigAccountInfo).
GraphLevel(level, infos) == [level |-> level, infos |-> infos]

\* The levels of a multi-signature graph, sorted from top to bottom
\* (descending keys), without the empty levels.
RECURSIVE sortedLevels(_)
sortedLevels(graph) ==
  IF graph = {} THEN <<>>
  ELSE LET top == CHOOSE e \in graph : \A f \in graph : e.level >= f.level
       IN  (IF Len(top.infos) > 0 THEN <<top.infos>> ELSE <<>>)
           \o sortedLevels(graph \ {top})

\* The cosignatory addresses of a list of MultisigAccountInfo, one
\* after the other.
RECURSIVE concatAll(_, _)
concatAll(infos, k) ==
  IF k > Len(infos) THEN <<>>
  ELSE infos[k].cosignatoryAddresses \o concatAll(infos, k + 1)

\* MultisigService.getMultisigAccountInfoFromGraph followed by the map
\* and reduce of synchronize: the cosignatory addresses of the last level
\* that is left.  The reductions have no initial value, so a graph
\* without a non-empty level raises ("failed").
operatorsFromGraph(graph) ==
  LET levels == sortedLevels(graph)
  IN  IF Len(levels) = 0 THEN [failed |-> TRUE, operators |-> <<>>]
      ELSE [failed |-> FALSE,
            operators |-> concatAll(levels[Len(levels)], 1)]

\* MetadataService.KNOWN_METADATAS, in the order of the bucket's fields.
KnownMetadataKeys == <<"XXX1", "XXX2", "XXX3", "XXX4", "XXX5", "XXX6">>

DictionaryKeys ==
  <<"dao_name", "dao_code", "dao_website_uri", "dao_contact_uri",
    "dao_description", "dao_image_uri">>

\* MetadataService.getKnownMetadataKey
getKnownMetadataKey(hexKey) ==
  IF \E k \in 1..Len(KnownMetadataKeys) : KnownMetadataKeys[k] = hexKey
    THEN DictionaryKeys[CHOOSE k \in 1..Len(KnownMetadataKeys) :
                          KnownMetadataKeys[k] = hexKey]
    ELSE hexKey

\* MetadataService.readMetadataFromNetwork on the entries the ledger
\* returned.  Without entries the reduction over the dictionary raises;
\* with two or more entries the sort predicate is called and raises,
\* because it calls findIndex detached from its array.  With one entry
\* the bucket holds the value under the field of its key, and undefined
\* under the other fields.
readMetadata(entries) ==
  IF Len(entries) # 1 THEN [failed |-> TRUE, bucket |-> EmptyBucket]
  ELSE LET key == getKnownMetadataKey(entries[1].key)
       IN  [failed |-> FALSE,
            bucket |-> [f \in DOMAIN EmptyBucket |->
                          LET k == CHOOSE j \in 1..Len(MetadataFields) :
                                     MetadataFields[j] = f
                          IN  IF DictionaryKeys[k] = key
                                THEN entries[1].value ELSE Undefined]]

\* ------------------------------------------------------------------------
\* State
\* ------------------------------------------------------------------------

VARIABLES
  contract,      \* the contract instance a test holds (Executable and Context)
  call,          \* the last call made on that instance: method and actor
  result,        \* the outcome of that call
  agreementHash, \* DistributedOrganization.agreementHash (constructor)
  agreement,     \* DistributedOrganization.agreement
  mosaicInfo,    \* DistributedOrganization.mosaicInfo
  operators,     \* DistributedOrganization.operators
  metadata,      \* DistributedOrganization.metadata
  sync,          \* the asynchronous call in flight and the await it rests at
  last,          \* the outcome of the last call the organization completed
  taxonomy,      \* a Taxonomy: its sequence and its semantics
  candidate,     \* the inner transactions of an aggregate handed to validate
  verdict,       \* what validate returned for them ("pending" before the call)
  calls,         \* how many times validate was called on them
  found,         \* what validateBundle returned for them (-1 before the call)
  walk           \* the locals of a call of validate that is under way

contractVars == <<contract, call, result>>

organizationVars ==
  <<agreementHash, agreement, mosaicInfo, operators, metadata, sync, last>>

taxonomyVars == <<taxonomy, candidate, verdict, calls, found, walk>>

vars == <<contract, call, result,
          agreementHash, agreement, mosaicInfo, operators, metadata, sync, last,
          taxonomy, candidate, verdict, calls, found, walk>>

\* An unset MetadataBucket field of an organization or a contract; a
\* bucket that is set is the one-element sequence holding it.
NoMetadata == <<>>

\* The synchronized fields of an organization none of which is set.
NoFields ==
  [agreement |-> NoTransaction, mosaicInfo |-> Undefined,
   operators |-> <<>>, metadata |-> NoMetadata]

\* No asynchronous call is in flight.
NoSync == [pc |-> "idle", method |-> "none", pre |-> NoFields, trace |-> <<>>]

\* The outcome of a call on the organization: the method, the contract
\* name it was given, the failure raised ("none" when it returned), the
\* value returned, the steps taken, the size of the built list, and the
\* caller's list of options before and after the call.
Done(method, name, error, status, trace, size) ==
  [method |-> method, contract |-> name, error |-> error, status |-> status,
   trace |-> trace, size |-> size, argv |-> <<>>, argvAfter |-> <<>>]

NoLast == Done("none", "none", "pending", FALSE, <<>>, 0)

\* validateBundle was not called.
NoCount == -1

\* The locals of validate and of the validateBundle it calls: where the
\* call stands, the index into the sequence, the optional entries
\* skipped, the transactions taken by bundles, and inside validateBundle
\* its entries, the slice it reads and its count.
Walk(pc, i, skip, bundled, entries, trxes, cntFound) ==
  [pc |-> pc, i |-> i, skip |-> skip, bundled |-> bundled,
   entries |-> entries, trxes |-> trxes, cntFound |-> cntFound]

\* validate is not under way.
NoWalk == Walk("idle", 0, 0, 0, <<>>, <<>>, 0)

\* No taxonomy is under test: the specification of CommitAgreement and
\* no candidate.
IdleTaxonomy ==
  /\ taxonomy = CommitAgreementSpecification
  /\ candidate = <<>>
  /\ verdict = "pending"
  /\ calls = 0
  /\ found = NoCount
  /\ walk = NoWalk

\* DistributedOrganization after construction, without agreement hash.
IdleOrganization ==
  /\ agreementHash = Undefined
  /\ agreement = NoTransaction
  /\ mosaicInfo = Undefined
  /\ operators = <<>>
  /\ metadata = NoMetadata
  /\ sync = NoSync
  /\ last = NoLast

\* A transaction as the test mocks build it (an empty aggregate complete).
TestAggregateTransaction ==
  [type |-> "AGGREGATE_COMPLETE", innerTransactions |-> <<>>, confirmed |-> FALSE]

Actors == {TargetAccount, OtherAccount, OperatorPool[1]}

\* The first n accounts of the operator pool.
OperatorsList(n) == SubSeq(OperatorPool, 1, n)

\* The values an option can take in the model; the empty sequence stands
\* for "the option is not passed".
OptionChoices(name) ==
  {<<>>} \cup
  CASE name = "target" ->
         { <<ContractOption(name, AccountValue(a))>> :
             a \in {TargetAccount, OtherAccount} }
    [] name = "agreement" ->
         { <<ContractOption(name, AccountValue(AgreementAccount))>> }
    [] name = "operator" ->
         { <<ContractOption(name, AccountValue(OperatorPool[1]))>> }
    [] name = "operators" ->
         { <<ContractOption(name, AccountsValue(OperatorsList(n)))>> :
             n \in 0..MaxOperators }
    [] name = "metadata" ->
         { <<ContractOption(name, BucketValue(BucketOf(filled)))>> :
             filled \in SUBSET { MetadataFields[k] : k \in 1..Len(MetadataFields) } }
    [] name = "password" ->
         { <<ContractOption(name, TextValue(""))>> }
    [] name = "mnemonic" ->
         { <<ContractOption(name, TextValue("24 words"))>> }
    [] OTHER ->
         { <<ContractOption(name, TextValue("m/44'/4343'/5'/0'/0'"))>> }

\* The option names a contract reads: its required arguments and the
\* inputs its `transactions` getter asks for.
InputNames(name) ==
  IF name = "CreateAgreement"
    THEN <<"password", "mnemonic", "path", "agreementPath", "operators">>
    ELSE arguments(name)

\* All option lists over the input names of a contract, in that order.
RECURSIVE ArgvChoices(_, _)
ArgvChoices(names, k) ==
  IF k > Len(names) THEN {<<>>}
  ELSE { head \o tail : head \in OptionChoices(names[k]),
                        tail \in ArgvChoices(names, k + 1) }

\* The option a test passes for an input name.
TestOption(name) ==
  CASE name = "target" -> ContractOption(name, AccountValue(TargetAccount))
    [] name = "agreement" -> ContractOption(name, AccountValue(AgreementAccount))
    [] name = "operator" -> ContractOption(name, AccountValue(OperatorPool[1]))
    [] name = "operators" -> ContractOption(name, AccountsValue(OperatorsList(1)))
    [] name = "metadata" -> ContractOption(name, BucketValue(BucketOf({})))
    [] name = "password" -> ContractOption(name, TextValue(""))
    [] name = "mnemonic" -> ContractOption(name, TextValue("24 words"))
    [] OTHER -> ContractOption(name, TextValue("m/44'/4343'/5'/0'/0'"))

\* The argv a caller hands to canExecute or execute of a contract, next
\* to the inputs the context was built with: nothing, or an option for
\* each of the contract's arguments.
PassedArgv(name) ==
  { <<>>, [k \in 1..Len(arguments(name)) |-> TestOption(arguments(name)[k])] }

\* Executable constructor: a contract around a context and the
\* organization's identifier; the synchronized fields start unset.
NewContract(name, actor, argv) ==
  [name |-> name, revision |-> Revision, actor |-> actor, argv |-> argv,
   id |-> IdentifierId, target |-> TargetAccount,
   agreement |-> NoTransaction, operators |-> <<>>,
   mosaicInfo |-> Undefined, metadata |-> NoMetadata,
   emptyPathDerives |-> FALSE]

NoCall == [method |-> "none", actor |-> Undefined, argv |-> <<>>]

NoResult == Outcome("pending", FALSE, <<>>, <<>>)

\* A test builds a contract in a context and may set its agreement and
\* its operators.
InitContract ==
  /\ \E name \in ContractClasses, actor \in Actors :
     \E argv \in ArgvChoices(InputNames(name), 1) :
     \E held \in {NoTransaction, TestAggregateTransaction},
        n \in 0..MaxOperators,
        derives \in (IF name = "CreateAgreement" THEN BOOLEAN ELSE {FALSE}) :
       contract = [NewContract(name, actor, argv) EXCEPT
                     !.agreement = held,
                     !.operators = [k \in 1..n |-> AddressOf(OperatorPool[k])],
                     !.emptyPathDerives = derives]
  /\ call = NoCall
  /\ result = NoResult
  /\ IdleOrganization
  /\ IdleTaxonomy

\* contract.canExecute(actor, argv)
CallCanExecute ==
  \E actor \in Actors, argv \in PassedArgv(contract.name) :
    /\ call' = [method |-> "canExecute", actor |-> actor, argv |-> argv]
    /\ result' = canExecute(contract, actor, argv)
    /\ UNCHANGED contract
    /\ UNCHANGED organizationVars
    /\ UNCHANGED taxonomyVars

\* contract.execute(actor, argv)
CallExecute ==
  \E actor \in Actors, argv \in PassedArgv(contract.name) :
    /\ call' = [method |-> "execute", actor |-> actor, argv |-> argv]
    /\ result' = execute(contract, actor, argv)
    /\ UNCHANGED contract
    /\ UNCHANGED organizationVars
    /\ UNCHANGED taxonomyVars

NextContract == CallCanExecute \/ CallExecute

SpecContract == InitContract /\ [][NextContract]_vars

\* ------------------------------------------------------------------------
\* DistributedOrganization
\* ------------------------------------------------------------------------

\* The contracts the organization dispatches to by name.
DigitalContracts == ContractNames \cup {"Vote"}

\* Names that are no entry of the dispatch table and that a lookup in
\* the table finds all the same: the table is an object literal, and
\* `DigitalContracts[command]` also finds what every object inherits.
\* `constructor` is the one the model follows: called with the context
\* it returns the context.
InheritedNames == {"constructor"}

\* The implementation of Vote is not among the sources.  A canExecute of
\* it may have any outcome a contract's canExecute has.
VoteCanExecute ==
  { Outcome("MissingArgument", FALSE, <<>>, <<"assertHasMandatoryArguments">>),
    Outcome("none", FALSE, <<>>, <<"assertHasMandatoryArguments", "policy">>),
    Outcome("none", TRUE, <<>>, <<"assertHasMandatoryArguments", "policy">>) }

\* An execute of Vote may have any outcome a contract's execute has: the
\* failure of its canExecute, a refusal, an empty list, or a list.
VoteExecute ==
  { Outcome("MissingArgument", FALSE, <<>>, <<"canExecute">>),
    Outcome("OperationForbidden", FALSE, <<>>, <<"canExecute">>),
    Outcome("EmptyContract", TRUE, <<>>, <<"canExecute", "transactions">>),
    Outcome("none", TRUE,
            << InnerTx("TRANSFER", Undefined, AddressOf(TargetAccount),
                       EmptyMessage, Undefined, 0) >>,
            <<"canExecute", "transactions", "transactions", "createBonded">>) }

\* An agreement hash given to the constructor.
AgreementHash == "C0FFEE"

\* The aggregate on the ledger once CommitAgreement was executed, signed
\* and confirmed.
CommittedAgreement ==
  [type |-> "AGGREGATE_BONDED",
   innerTransactions |->
     CommitAgreementTransactions(
       NewContract("CommitAgreement", TargetAccount,
         << ContractOption("target", AccountValue(TargetAccount)),
            ContractOption("agreement", AccountValue(AgreementAccount)) >>)),
   confirmed |-> TRUE]

\* What the ledger may hold under the agreement hash: nothing, the
\* committed agreement, or a transaction that differs from it in one
\* respect.
LedgerAgreements ==
  { NoTransaction,
    CommittedAgreement,
    [CommittedAgreement EXCEPT !.type = "AGGREGATE_COMPLETE"],
    [CommittedAgreement EXCEPT !.innerTransactions = <<>>],
    [CommittedAgreement EXCEPT !.innerTransactions = SubSeq(@, 1, 2)],
    [CommittedAgreement EXCEPT !.innerTransactions = Append(@, @[3])],
    [CommittedAgreement EXCEPT !.confirmed = FALSE],
    [CommittedAgreement EXCEPT !.innerTransactions[1].proof = "0badc0de"],
    [CommittedAgreement EXCEPT
       !.innerTransactions[2].message = PublicKeyOf(OtherAccount)],
    [CommittedAgreement EXCEPT
       !.innerTransactions[3].message =
          "Governable(v1):create-dao:" \o IdentifierId],
    [CommittedAgreement EXCEPT !.innerTransactions[2].message = NoMessage] }

\* What the asset-info read may return.
MosaicInfos == {"MosaicInfo(supply 1)", "MosaicInfo(supply 2)"}

\* The addresses of a list of accounts.
Addresses(accounts) == [k \in 1..Len(accounts) |-> AddressOf(accounts[k])]

\* What the operator-graph read may return: a graph without levels, with
\* one empty level, with one level, and with two levels.
GraphChoices ==
  { {},
    { GraphLevel(0, <<>>) },
    { GraphLevel(0, << MultisigAccountInfo(
                          Addresses(OperatorsList(MaxOperators))) >>) },
    { GraphLevel(0, << MultisigAccountInfo(Addresses(OperatorsList(1))) >>),
      GraphLevel(-1, << MultisigAccountInfo(<<AddressOf(OperatorPool[2])>>),
                        MultisigAccountInfo(<<AddressOf(OperatorPool[1])>>) >>) } }

\* What the metadata search may return: up to MaxMetadataEntries entries,
\* each under a known key or under another key.
MetadataEntries ==
  { [key |-> "XXX1", value |-> "The DAO"],
    [key |-> "85BBEA6CC462B244", value |-> "custom"] }

MetadataChoices ==
  UNION { [1..n -> MetadataEntries] : n \in 0..MaxMetadataEntries }

\* The synchronized fields of the organization.
Fields ==
  [agreement |-> agreement, mosaicInfo |-> mosaicInfo,
   operators |-> operators, metadata |-> metadata]

\* Variant of the test on the agreement hash that always reads.
hasAgreementHashAlways(hash) == TRUE

\* `this.agreementHash && this.agreementHash.length`
hasAgreementHash(hash) == hash # Undefined /\ hash # ""

\* Variant of the end of synchronize in which execute goes on to the
\* contract whatever synchronize raised.
SynchronizeEndsIgnored(error, trace) ==
  IF sync.method = "synchronize"
    THEN /\ sync' = NoSync
         /\ last' = Done("synchronize", "none", error, error = "none", trace, 0)
    ELSE /\ sync' = [sync EXCEPT !.pc = "synchronized", !.trace = trace]
         /\ last' = NoLast

\* The end of synchronize, returning true (error "none") or raising
\* `error`.  A call of synchronize is over; execute awaits synchronize
\* outside its try block, so it rejects with what synchronize raised and
\* otherwise goes on to the contract.
SynchronizeEnds(error, trace) ==
  IF sync.method = "synchronize"
    THEN /\ sync' = NoSync
         /\ last' = Done("synchronize", "none", error, error = "none", trace, 0)
    ELSE IF error # "none"
      THEN /\ sync' = NoSync
           /\ last' = Done("execute", "none", error, FALSE, trace, 0)
      ELSE /\ sync' = [sync EXCEPT !.pc = "synchronized", !.trace = trace]
           /\ last' = NoLast

\* The start of synchronize(), called by a client or by execute, up to
\* its first await.  Without agreement hash it returns true at once.
Synchronize(method) ==
  /\ sync.pc = "idle"
  /\ IF hasAgreementHash(agreementHash)
       THEN /\ sync' = [pc |-> "awaitAgreement", method |-> method,
                        pre |-> Fields, trace |-> <<"synchronize">>]
            /\ last' = NoLast
       ELSE IF method = "synchronize"
         THEN /\ sync' = NoSync
              /\ last' = Done("synchronize", "none", "none", TRUE,
                              <<"synchronize">>, 0)
         ELSE /\ sync' = [pc |-> "synchronized", method |-> method,
                          pre |-> Fields, trace |-> <<"synchronize">>]
              /\ last' = NoLast
  /\ UNCHANGED <<agreementHash, agreement, mosaicInfo, operators, metadata>>

CallSynchronize == Synchronize("synchronize")

\* The first part of organization.execute(...): it awaits synchronize().
CallOrgExecute == Synchronize("execute")

\* The read of the agreement transaction completes.  A read that fails
\* rejects synchronize; a read that returns is assigned to `agreement`
\* and then verified.
AgreementRead ==
  /\ sync.pc = "awaitAgreement"
  /\ \/ /\ SynchronizeEnds("NetworkError",
                           sync.trace \o <<"readTransaction:failed">>)
        /\ UNCHANGED agreement
     \/ \E tx \in LedgerAgreements :
          LET authentic == verifyAuthenticity(Revision, IdentifierId,
                                              TargetAccount, tx)
              trace == sync.trace \o <<"readTransaction:ok", "verifyAuthenticity">>
          IN  /\ agreement' = tx
              /\ CASE authentic = "false" ->
                        SynchronizeEnds("InvalidAgreement", trace)
                   [] authentic = "TypeError" ->
                        SynchronizeEnds("TypeError", trace)
                   [] OTHER ->
                        /\ sync' = [sync EXCEPT !.pc = "awaitMosaic",
                                                !.trace = trace]
                        /\ UNCHANGED last
  /\ UNCHANGED <<agreementHash, mosaicInfo, operators, metadata>>

\* The value assigned to mosaicInfo when the asset-info read completes:
\* an error of the read is caught in the pipe and replaced by undefined.
mosaicInfoRead(failed, info) == IF failed THEN Undefined ELSE info

\* Variant of the operators read that empties the list when it fails.
operatorsReadClearing(previous, failed, graph) ==
  IF failed \/ operatorsFromGraph(graph).failed
    THEN <<>>
    ELSE operatorsFromGraph(graph).operators

\* The value of operators after the operator-graph read: the assignment
\* is skipped when the read or the reduction of the graph raises.
operatorsRead(previous, failed, graph) ==
  IF failed \/ operatorsFromGraph(graph).failed
    THEN previous
    ELSE operatorsFromGraph(graph).operators

\* The value of metadata after the metadata read: the assignment is
\* skipped when the search or the construction of the bucket raises.
metadataRead(previous, failed, entries) ==
  IF failed \/ readMetadata(entries).failed
    THEN previous
    ELSE <<readMetadata(entries).bucket>>

\* The trace entry of a best-effort read.
ReadEvent(read, failed) == read \o (IF failed THEN ":failed" ELSE ":ok")

\* The asset-info read completes.
MosaicRead ==
  /\ sync.pc = "awaitMosaic"
  /\ \E failed \in BOOLEAN, info \in MosaicInfos :
       /\ mosaicInfo' = mosaicInfoRead(failed, info)
       /\ sync' = [sync EXCEPT !.pc = "awaitGraph",
                     !.trace = @ \o <<ReadEvent("getMosaic", failed)>>]
  /\ UNCHANGED <<agreementHash, agreement, operators, metadata, last>>

\* Variant of the operator-graph read that gives up on a failure.
GraphReadAborting ==
  /\ sync.pc = "awaitGraph"
  /\ \E failed \in BOOLEAN, graph \in GraphChoices :
       LET raised == failed \/ operatorsFromGraph(graph).failed
           trace == sync.trace \o
                      <<ReadEvent("getMultisigAccountGraphInfo", raised)>>
       IN  /\ operators' = operatorsRead(operators, failed, graph)
           /\ IF raised
                THEN SynchronizeEnds("none", trace)
                ELSE /\ sync' = [sync EXCEPT !.pc = "awaitMetadata",
                                             !.trace = trace]
                     /\ UNCHANGED last
  /\ UNCHANGED <<agreementHash, agreement, mosaicInfo, metadata>>

\* The operator-graph read completes.
GraphRead ==
  /\ sync.pc = "awaitGraph"
  /\ \E failed \in BOOLEAN, graph \in GraphChoices :
       LET raised == failed \/ operatorsFromGraph(graph).failed
       IN  /\ operators' = operatorsRead(operators, failed, graph)
           /\ sync' = [sync EXCEPT !.pc = "awaitMetadata",
                         !.trace = @ \o
                           <<ReadEvent("getMultisigAccountGraphInfo", raised)>>]
  /\ UNCHANGED <<agreementHash, agreement, mosaicInfo, metadata, last>>

\* The metadata read completes, and synchronize returns true.
MetadataRead ==
  /\ sync.pc = "awaitMetadata"
  /\ \E failed \in BOOLEAN, entries \in MetadataChoices :
       LET raised == failed \/ readMetadata(entries).failed
       IN  /\ metadata' = metadataRead(metadata, failed, entries)
           /\ SynchronizeEnds("none",
                sync.trace \o <<ReadEvent("readMetadataFromNetwork", raised)>>)
  /\ UNCHANGED <<agreementHash, agreement, mosaicInfo, operators>>

\* The names a client may pass as contract name.
DispatchNames == DigitalContracts \cup InheritedNames \cup {"Unknown"}

\* An option of the argument lists clients pass to the organization.
OrganizationOption(name, target) ==
  CASE name = "target"    -> ContractOption(name, AccountValue(target))
    [] name = "agreement" -> ContractOption(name, AccountValue(AgreementAccount))
    [] name = "operator"  -> ContractOption(name, AccountValue(OperatorPool[1]))
    [] name = "operators" ->
         ContractOption(name, AccountsValue(OperatorsList(MaxOperators)))
    [] name = "metadata"  -> ContractOption(name, BucketValue(BucketOf({"name"})))
    [] name = "password"  -> ContractOption(name, TextValue(""))
    [] name = "mnemonic"  -> ContractOption(name, TextValue("24 words"))
    [] OTHER -> ContractOption(name, TextValue("m/44'/4343'/5'/0'/0'"))

\* The argument lists clients pass with a contract name: none, or every
\* input of the contract, naming the organization's target or another
\* account as target.
OrganizationArgv(name) ==
  {<<>>} \cup
  { [k \in 1..Len(InputNames(name)) |->
       OrganizationOption(InputNames(name)[k], target)] :
      target \in {TargetAccount, OtherAccount} }

\* getContext and getContract, followed by the copy of the synchronized
\* fields into the contract.
populated(name, actor, argv) ==
  [NewContract(name, actor, argv) EXCEPT
     !.agreement = agreement, !.mosaicInfo = mosaicInfo,
     !.operators = operators, !.metadata = metadata]

\* getContract: does `DigitalContracts[command]` find something?
knownContract(name) == name \in DigitalContracts \cup InheritedNames

\* The outcome of a call whose name found an inherited function: the
\* fields are copied onto what it returned, which has no canExecute and
\* no execute, and calling them raises a TypeError.
NotAContract ==
  Outcome("TypeError", FALSE, <<>>, <<"getContext", "getContract", "populate">>)

\* Variant of getContext that records an option of its own.
getContextRecording(argv) == setInput(argv, "revision", TextValue("1"))

\* getContext: the inputs of the new context are the caller's list.
getContext(argv) == argv

\* Variant in which the contract takes the first operator off the list
\* it was handed.
heldAfterShift(c) ==
  [agreement |-> c.agreement, mosaicInfo |-> c.mosaicInfo,
   operators |-> IF Len(c.operators) > 0 THEN Tail(c.operators) ELSE <<>>,
   metadata |-> c.metadata]

\* The objects the organization handed to a contract, after a call of
\* the contract.  They are handed over by reference; the contracts read
\* `agreement` and write none of them.
heldAfter(c) ==
  [agreement |-> c.agreement, mosaicInfo |-> c.mosaicInfo,
   operators |-> c.operators, metadata |-> c.metadata]

\* Variant in which the contract records an input of its own.
argvAfterSetInput(c) == setInput(c.argv, "target", AccountValue(c.target))

\* The caller's list of options after a call of the contract: the
\* context keeps the list it was given, and no contract sets an input.
argvAfter(c) == c.argv

\* What a call on the organization leaves behind: its outcome, the
\* objects of the organization and the caller's list of options.
Tried(outcome, held, argv) == [outcome |-> outcome, held |-> held, argv |-> argv]

\* The body of DistributedOrganization.canExecute: getContext,
\* getContract, the copy of the fields and the contract's canExecute.
canExecuteTry(name, actor, argv) ==
  IF ~knownContract(name)
    THEN { Tried(Outcome("InvalidContract", FALSE, <<>>,
                         <<"getContext", "getContract">>),
                 Fields, getContext(argv)) }
  ELSE IF name \in InheritedNames
    THEN { Tried(NotAContract, Fields, getContext(argv)) }
    ELSE { Tried(Outcome(r.error, r.status, <<>>,
                         <<"getContext", "getContract", "populate">> \o r.trace),
                 heldAfter(populated(name, actor, getContext(argv))),
                 argvAfter(populated(name, actor, getContext(argv)))) :
             r \in (IF name = "Vote" THEN VoteCanExecute
                    ELSE {canExecute(populated(name, actor, getContext(argv)),
                                      actor, argv)}) }

\* The try block of DistributedOrganization.execute.
executeTry(name, actor, argv) ==
  IF ~knownContract(name)
    THEN { Tried(Outcome("InvalidContract", FALSE, <<>>,
                         <<"getContext", "getContract">>),
                 Fields, getContext(argv)) }
  ELSE IF name \in InheritedNames
    THEN { Tried(NotAContract, Fields, getContext(argv)) }
    ELSE { Tried(Outcome(r.error, r.error = "none", r.transactions,
                         <<"getContext", "getContract", "populate">> \o r.trace),
                 heldAfter(populated(name, actor, getContext(argv))),
                 argvAfter(populated(name, actor, getContext(argv)))) :
             r \in (IF name = "Vote" THEN VoteExecute
                    ELSE {execute(populated(name, actor, getContext(argv)),
                                   actor, argv)}) }

\* Variant of executeOffline that does not hand the agreement over.
executeOfflineTryWithoutAgreement(name, actor, argv) ==
  IF ~knownContract(name)
    THEN { Tried(Outcome("InvalidContract", FALSE, <<>>,
                         <<"getContext", "getContract">>),
                 Fields, getContext(argv)) }
  ELSE IF name \in InheritedNames
    THEN { Tried(NotAContract, Fields, getContext(argv)) }
    ELSE { Tried(Outcome(r.error, r.error = "none", r.transactions,
                         <<"getContext", "getContract", "populate">> \o r.trace),
                 Fields, argv) :
             r \in (IF name = "Vote" THEN VoteExecute
                    ELSE { execute([populated(name, actor, argv) EXCEPT
                                      !.agreement = NoTransaction], actor, argv) }) }

\* The try block of DistributedOrganization.executeOffline.
executeOfflineTry(name, actor, argv) ==
  IF ~knownContract(name)
    THEN { Tried(Outcome("InvalidContract", FALSE, <<>>,
                         <<"getContext", "getContract">>),
                 Fields, getContext(argv)) }
  ELSE IF name \in InheritedNames
    THEN { Tried(NotAContract, Fields, getContext(argv)) }
    ELSE { Tried(Outcome(r.error, r.error = "none", r.transactions,
                         <<"getContext", "getContract", "populate">> \o r.trace),
                 heldAfter(populated(name, actor, getContext(argv))),
                 argvAfter(populated(name, actor, getContext(argv)))) :
             r \in (IF name = "Vote" THEN VoteExecute
                    ELSE {execute(populated(name, actor, getContext(argv)),
                                   actor, argv)}) }

\* The end of a call that reached getContext: the outcome is recorded,
\* and the organization's objects are what the contract left of them.
Finishes(method, name, trace, argv, t) ==
  /\ last' = [Done(method, name, t.outcome.error, t.outcome.status,
                   trace \o t.outcome.trace, Len(t.outcome.transactions))
                EXCEPT !.argv = argv, !.argvAfter = t.argv]
  /\ agreement' = t.held.agreement
  /\ mosaicInfo' = t.held.mosaicInfo
  /\ operators' = t.held.operators
  /\ metadata' = t.held.metadata

\* DistributedOrganization.canExecute
OrgCanExecute ==
  /\ sync.pc = "idle"
  /\ \E actor \in Actors, name \in DispatchNames :
     \E argv \in OrganizationArgv(name) :
     \E t \in canExecuteTry(name, actor, argv) :
       Finishes("canExecute", name, <<>>, argv, t)
  /\ UNCHANGED <<agreementHash, sync>>

\* The second part of organization.execute(...), after synchronize
\* returned.  The arguments of the call are first read here.
OrgExecute ==
  /\ sync.pc = "synchronized"
  /\ \E actor \in Actors, name \in DispatchNames :
     \E argv \in OrganizationArgv(name) :
     \E t \in executeTry(name, actor, argv) :
       Finishes("execute", name, sync.trace \o <<"synchronized">>, argv, t)
  /\ sync' = NoSync
  /\ UNCHANGED agreementHash

\* DistributedOrganization.executeOffline
OrgExecuteOffline ==
  /\ sync.pc = "idle"
  /\ \E actor \in Actors, name \in DispatchNames :
     \E argv \in OrganizationArgv(name) :
     \E t \in executeOfflineTry(name, actor, argv) :
       Finishes("executeOffline", name, <<>>, argv, t)
  /\ UNCHANGED <<agreementHash, sync>>

\* An organization after construction, with or without agreement hash.
Init ==
  /\ agreementHash \in {Undefined, "", AgreementHash}
  /\ agreement = NoTransaction
  /\ mosaicInfo = Undefined
  /\ operators = <<>>
  /\ metadata = NoMetadata
  /\ sync = NoSync
  /\ last = NoLast
  /\ contract = NewContract("CreateAgreement", TargetAccount, <<>>)
  /\ call = NoCall
  /\ result = NoResult
  /\ IdleTaxonomy

Next ==
  \/ (CallSynchronize /\ UNCHANGED contractVars /\ UNCHANGED taxonomyVars)
  \/ (CallOrgExecute /\ UNCHANGED contractVars /\ UNCHANGED taxonomyVars)
  \/ (AgreementRead /\ UNCHANGED contractVars /\ UNCHANGED taxonomyVars)
  \/ (MosaicRead /\ UNCHANGED contractVars /\ UNCHANGED taxonomyVars)
  \/ (GraphRead /\ UNCHANGED contractVars /\ UNCHANGED taxonomyVars)
  \/ (MetadataRead /\ UNCHANGED contractVars /\ UNCHANGED taxonomyVars)
  \/ (OrgCanExecute /\ UNCHANGED contractVars /\ UNCHANGED taxonomyVars)
  \/ (OrgExecute /\ UNCHANGED contractVars /\ UNCHANGED taxonomyVars)
  \/ (OrgExecuteOffline /\ UNCHANGED contractVars /\ UNCHANGED taxonomyVars)

Spec == Init /\ [][Next]_vars

\* ------------------------------------------------------------------------
\* DistributedOrganization called while synchronize is suspended
\* ------------------------------------------------------------------------

\* synchronize is an async function: while it rests at an awaited read,
\* the synchronous canExecute and executeOffline of the same organization
\* can be called.  Here `contract` is the fresh contract such a call
\* built, `call` the call and `result` its outcome; a synchronize that
\* starts has seen no such call yet.  The synchronize in flight is one a
\* client called, and the calls made meanwhile name one of two
\* contracts, without options or with the options of the tests.
NoContractYet ==
  /\ contract' = NewContract("CreateAgreement", TargetAccount, <<>>)
  /\ call' = NoCall
  /\ result' = NoResult

\* The contracts named by the calls made meanwhile: one that asks for
\* an agreement and one that asks for none.
SuspendedNames == {"CreateDAO", "CommitAgreement"}

\* The fresh contract of a call is kept, with the call and its outcome.
Built(method, name, actor, argv, t) ==
  /\ contract' = IF name \in DigitalContracts
                   THEN populated(name, actor, getContext(argv))
                   ELSE contract
  /\ call' = [method |-> method, actor |-> actor, argv |-> argv]
  /\ result' = t.outcome

\* DistributedOrganization.canExecute, called while synchronize rests at
\* an await.
CanExecuteWhileSuspended ==
  /\ sync.pc \in {"awaitAgreement", "awaitMosaic", "awaitGraph", "awaitMetadata"}
  /\ call = NoCall
  /\ \E actor \in Actors, name \in SuspendedNames :
     \E argv \in PassedArgv(name) :
     \E t \in canExecuteTry(name, actor, argv) :
       /\ Finishes("canExecute", name, <<>>, argv, t)
       /\ Built("canExecute", name, actor, argv, t)
  /\ UNCHANGED <<agreementHash, sync>>
  /\ UNCHANGED taxonomyVars

\* DistributedOrganization.executeOffline, called while synchronize rests
\* at an await.
ExecuteOfflineWhileSuspended ==
  /\ sync.pc \in {"awaitAgreement", "awaitMosaic", "awaitGraph", "awaitMetadata"}
  /\ call = NoCall
  /\ \E actor \in Actors, name \in SuspendedNames :
     \E argv \in PassedArgv(name) :
     \E t \in executeOfflineTry(name, actor, argv) :
       /\ Finishes("executeOffline", name, <<>>, argv, t)
       /\ Built("executeOffline", name, actor, argv, t)
  /\ UNCHANGED <<agreementHash, sync>>
  /\ UNCHANGED taxonomyVars

NextInterleaved ==
  \/ (CallSynchronize /\ NoContractYet /\ UNCHANGED taxonomyVars)
  \/ (AgreementRead /\ UNCHANGED contractVars /\ UNCHANGED taxonomyVars)
  \/ (MosaicRead /\ UNCHANGED contractVars /\ UNCHANGED taxonomyVars)
  \/ (GraphRead /\ UNCHANGED contractVars /\ UNCHANGED taxonomyVars)
  \/ (MetadataRead /\ UNCHANGED contractVars /\ UNCHANGED taxonomyVars)
  \/ CanExecuteWhileSuspended
  \/ ExecuteOfflineWhileSuspended

SpecInterleaved == Init /\ [][NextInterleaved]_vars

\* ------------------------------------------------------------------------
\* Taxonomy.validate on grammars and candidates
\* ------------------------------------------------------------------------

\* The transaction types of candidates, and those the entries of the
\* grammars are drawn from.
TransactionTypes == {"SECRET_PROOF", "TRANSFER", "ACCOUNT_METADATA"}

GrammarTypes == {"SECRET_PROOF", "TRANSFER"}

\* A SemanticRuleset for a repeatable bundle of `size` entries at index
\* i.  validate reads `repeatable` and the length of `bundleWith` only.
Ruleset(i, size, minOccurences) ==
  [bundleWith |-> [k \in 1..size |-> i + k - 1], repeatable |-> TRUE,
   minOccurences |-> minOccurences, maxOccurences |-> 0]

\* The semantics of a grammar of n entries: none, or one repeatable
\* bundle that lies within the sequence.
SemanticsChoices(n) ==
  {NoSemantics} \cup
  UNION { { (i :> Ruleset(i, size, minOccurences)) :
              size \in { k \in 1..2 : i + k <= n }, minOccurences \in 0..1 } :
          i \in 0..(n - 1) }

\* The grammars under test: every sequence of up to MaxEntries entries
\* with each choice of semantics, and the specification of
\* CommitAgreement.
Taxonomies ==
  { CommitAgreementSpecification } \cup
  UNION { { Taxonomy("Taxonomy", sequence, semantics) :
              sequence \in [1..n -> { Entry(type, required) :
                                        type \in GrammarTypes,
                                        required \in BOOLEAN }],
              semantics \in SemanticsChoices(n) } :
          n \in 0..MaxEntries }

\* The candidates under test: the inner transactions of an aggregate, of
\* which validate reads the types.
Candidates ==
  UNION { [1..n -> { [type |-> type] : type \in TransactionTypes }] :
          n \in 0..MaxCandidate }

\* A taxonomy was constructed and an aggregate is at hand.
InitTaxonomy ==
  /\ taxonomy \in Taxonomies
  /\ candidate \in Candidates
  /\ verdict = "pending"
  /\ calls = 0
  /\ found = NoCount
  /\ walk = NoWalk
  /\ contract = NewContract("CreateAgreement", TargetAccount, <<>>)
  /\ call = NoCall
  /\ result = NoResult
  /\ IdleOrganization

\* taxonomy.validate(aggregate)
CallValidate ==
  /\ verdict = "pending"
  /\ verdict' = IF validate(taxonomy, candidate) THEN "true" ELSE "false"
  /\ calls' = calls + 1
  /\ UNCHANGED <<taxonomy, candidate, found, walk>>
  /\ UNCHANGED contractVars
  /\ UNCHANGED organizationVars

NextTaxonomy == CallValidate

SpecTaxonomy == InitTaxonomy /\ [][NextTaxonomy]_vars

\* ------------------------------------------------------------------------
\* Context under test (getInput, setInput)
\* ------------------------------------------------------------------------

\* The names and the values of the options of the context under test.
ContextNames == {"dummy", "target"}

ContextValues == {TextValue("value"), TextValue("other value")}

\* The defaults a caller hands to getInput (null among them).
ContextDefaults == {NullValue, TextValue("default")}

\* A call on the context: the method, the name and the value (or the
\* default) it was given, and the list of options it found.
ContextCall(method, name, value, before) ==
  [method |-> method, actor |-> Undefined, name |-> name, value |-> value,
   before |-> before]

\* A context was constructed, without options or with one option.
InitContext ==
  /\ \E argv \in {<<>>} \cup { <<ContractOption(name, value)>> :
                                   name \in ContextNames, value \in ContextValues } :
       contract = NewContract("CreateVote", TargetAccount, argv)
  /\ call = ContextCall("none", "", NullValue, <<>>)
  /\ result = NullValue
  /\ IdleOrganization
  /\ IdleTaxonomy

\* context.setInput(name, value); it returns the context.
CallSetInput ==
  \E name \in ContextNames, value \in ContextValues :
    /\ Len(contract.argv) < MaxInputs
    /\ contract' = [contract EXCEPT !.argv = setInput(@, name, value)]
    /\ call' = ContextCall("setInput", name, value, contract.argv)
    /\ UNCHANGED result
    /\ UNCHANGED organizationVars
    /\ UNCHANGED taxonomyVars

\* context.getInput(name, defaultValue)
CallGetInput ==
  \E name \in ContextNames, defaultValue \in ContextDefaults :
    /\ call' = ContextCall("getInput", name, defaultValue, contract.argv)
    /\ result' = getInput(contract.argv, name, defaultValue)
    /\ UNCHANGED contract
    /\ UNCHANGED organizationVars
    /\ UNCHANGED taxonomyVars

NextContext == CallSetInput \/ CallGetInput

SpecContext == InitContext /\ [][NextContext]_vars

\* ------------------------------------------------------------------------
\* Taxonomy.validateBundle on entries and transactions
\* ------------------------------------------------------------------------

\* A taxonomy without semantics was constructed, whose sequence is the
\* bundle handed to validateBundle, and transactions are at hand.
InitBundle ==
  /\ taxonomy \in { t \in Taxonomies : DOMAIN t.semantics = {} }
  /\ candidate \in Candidates
  /\ verdict = "pending"
  /\ calls = 0
  /\ found = NoCount
  /\ walk = NoWalk
  /\ contract = NewContract("CreateAgreement", TargetAccount, <<>>)
  /\ call = NoCall
  /\ result = NoResult
  /\ IdleOrganization

\* taxonomy.validateBundle(entries, transactions)
CallValidateBundle ==
  /\ found = NoCount
  /\ found' = validateBundle(taxonomy.sequence, candidate)
  /\ UNCHANGED <<taxonomy, candidate, verdict, calls, walk>>
  /\ UNCHANGED contractVars
  /\ UNCHANGED organizationVars

NextBundle == CallValidateBundle

SpecBundle == InitBundle /\ [][NextBundle]_vars

\* ------------------------------------------------------------------------
\* Taxonomy.validate, one pass of its loops at a time
\* ------------------------------------------------------------------------

\* A taxonomy was constructed and an aggregate of up to MaxWalked inner
\* transactions is at hand.
InitWalk ==
  /\ taxonomy \in Taxonomies
  /\ candidate \in { c \in Candidates : Len(c) <= MaxWalked }
  /\ verdict = "pending"
  /\ calls = 0
  /\ found = NoCount
  /\ walk = NoWalk
  /\ contract = NewContract("CreateAgreement", TargetAccount, <<>>)
  /\ call = NoCall
  /\ result = NoResult
  /\ IdleOrganization

\* validate returns: its locals are dropped but for the index and the
\* counts it ended with.
Return(value) ==
  /\ verdict' = value
  /\ walk' = [walk EXCEPT !.pc = "done", !.entries = <<>>, !.trxes = <<>>,
                          !.cntFound = 0]

\* taxonomy.validate(aggregate) is entered: the two tests on empty lists,
\* then the loop over the types starts at index 0.
StartValidate ==
  /\ walk.pc = "idle"
  /\ IF Len(candidate) = 0 \/ taxonomy.registeredTypes = {}
       THEN Return("false")
       ELSE /\ walk' = Walk("types", 0, 0, 0, <<>>, <<>>, 0)
            /\ UNCHANGED verdict
  /\ UNCHANGED <<taxonomy, candidate, calls, found>>
  /\ UNCHANGED contractVars
  /\ UNCHANGED organizationVars

\* One pass of the loop over the types of the inner transactions, or
\* its end, where the loop over the sequence starts at index 0.
TypePass ==
  /\ walk.pc = "types"
  /\ IF walk.i >= Len(candidate)
       THEN /\ walk' = Walk("loop", 0, 0, 0, <<>>, <<>>, 0)
            /\ UNCHANGED verdict
     ELSE IF ~acceptsType(taxonomy, candidate[walk.i + 1].type)
       THEN Return("false")
     ELSE /\ walk' = [walk EXCEPT !.i = walk.i + 1]
          /\ UNCHANGED verdict
  /\ UNCHANGED <<taxonomy, candidate, calls, found>>
  /\ UNCHANGED contractVars
  /\ UNCHANGED organizationVars

\* One pass of the loop over the sequence, or its end: an optional entry
\* is skipped or taken, a repeatable entry enters validateBundle with
\* its bundle and the slice at the cursor, a required entry is compared.
LoopPass ==
  /\ walk.pc = "loop"
  /\ IF walk.i >= Len(taxonomy.sequence) THEN Return("true")
     ELSE
       LET entry  == taxonomy.sequence[walk.i + 1]
           cursor == walk.i - walk.skip + walk.bundled
           hasTx  == cursor >= 0 /\ cursor < Len(candidate)
       IN  IF entry.required = FALSE
             THEN /\ walk' = IF (~hasTx) \/ candidate[cursor + 1].type # entry.type
                               THEN [walk EXCEPT !.i = walk.i + 1,
                                                 !.skip = walk.skip + 1]
                               ELSE [walk EXCEPT !.i = walk.i + 1]
                  /\ UNCHANGED verdict
           ELSE IF hasRepeatableRule(taxonomy, walk.i)
             THEN /\ walk' = [walk EXCEPT
                               !.pc = "bundle",
                               !.entries = bundleOf(taxonomy, walk.i),
                               !.trxes = IF hasTx
                                           THEN SubSeq(candidate, cursor + 1, Len(candidate))
                                           ELSE <<>>,
                               !.cntFound = 0]
                  /\ UNCHANGED verdict
           ELSE IF (~hasTx) \/ entry.type # candidate[cursor + 1].type
             THEN Return("false")
           ELSE /\ walk' = [walk EXCEPT !.i = walk.i + 1]
                /\ UNCHANGED verdict
  /\ UNCHANGED <<taxonomy, candidate, calls, found>>
  /\ UNCHANGED contractVars
  /\ UNCHANGED organizationVars

\* Variant of a pass of validateBundle that does not count the bundle
\* it found.
BundlePassWithoutCount ==
  /\ walk.pc = "bundle"
  /\ IF isBundleAt(walk.entries, walk.trxes, walk.cntFound)
       THEN /\ walk' = walk
            /\ UNCHANGED verdict
     ELSE IF walk.cntFound = 0
       THEN Return("false")
     ELSE /\ walk' = [walk EXCEPT
                       !.pc = "loop",
                       !.i = walk.i + Len(walk.entries) + 1,
                       !.bundled = walk.bundled + walk.cntFound * Len(walk.entries),
                       !.entries = <<>>, !.trxes = <<>>, !.cntFound = 0]
          /\ UNCHANGED verdict
  /\ UNCHANGED <<taxonomy, candidate, calls, found>>
  /\ UNCHANGED contractVars
  /\ UNCHANGED organizationVars

\* One pass of the do-while loop of validateBundle (its inner loop over
\* the entries of the bundle included), or its return to validate: no
\* occurrence makes validate return false, otherwise the index moves by
\* the length of the bundle and then by the loop's own increment.
BundlePass ==
  /\ walk.pc = "bundle"
  /\ IF isBundleAt(walk.entries, walk.trxes, walk.cntFound)
       THEN /\ walk' = [walk EXCEPT !.cntFound = walk.cntFound + 1]
            /\ UNCHANGED verdict
     ELSE IF walk.cntFound = 0
       THEN Return("false")
     ELSE /\ walk' = [walk EXCEPT
                       !.pc = "loop",
                       !.i = walk.i + Len(walk.entries) + 1,
                       !.bundled = walk.bundled + walk.cntFound * Len(walk.entries),
                       !.entries = <<>>, !.trxes = <<>>, !.cntFound = 0]
          /\ UNCHANGED verdict
  /\ UNCHANGED <<taxonomy, candidate, calls, found>>
  /\ UNCHANGED contractVars
  /\ UNCHANGED organizationVars

NextWalk == StartValidate \/ TypePass \/ LoopPass \/ BundlePass

SpecWalk == InitWalk /\ [][NextWalk]_vars

\* validate is synchronous code: once entered, it runs on until it
\* returns.
SpecWalkFair == SpecWalk /\ WF_vars(NextWalk)

\* ------------------------------------------------------------------------
\* Taxonomy validated more than once
\* ------------------------------------------------------------------------

\* A taxonomy was constructed and an aggregate of up to MaxRevalidated
\* inner transactions is at hand.
InitRevalidate ==
  /\ taxonomy \in Taxonomies
  /\ candidate \in { c \in Candidates : Len(c) <= MaxRevalidated }
  /\ verdict = "pending"
  /\ calls = 0
  /\ found = NoCount
  /\ walk = NoWalk
  /\ contract = NewContract("CreateAgreement", TargetAccount, <<>>)
  /\ call = NoCall
  /\ result = NoResult
  /\ IdleOrganization

\* Variant of a later call of validate in which the cursor is kept in
\* the taxonomy and not in the call: the walk starts where the calls
\* before it left off.
CallValidateAgainKeepingCursor ==
  /\ verdict # "pending"
  /\ calls < MaxCalls
  /\ verdict' = IF validate(taxonomy,
                            SubSeq(candidate, calls + 1, Len(candidate)))
                  THEN "true" ELSE "false"
  /\ calls' = calls + 1
  /\ UNCHANGED <<taxonomy, candidate, found, walk>>
  /\ UNCHANGED contractVars
  /\ UNCHANGED organizationVars

\* taxonomy.validate(aggregate) on a taxonomy and an aggregate that were
\* validated before.
CallValidateAgain ==
  /\ verdict # "pending"
  /\ calls < MaxCalls
  /\ verdict' = IF validate(taxonomy, candidate) THEN "true" ELSE "false"
  /\ calls' = calls + 1
  /\ UNCHANGED <<taxonomy, candidate, found, walk>>
  /\ UNCHANGED contractVars
  /\ UNCHANGED organizationVars

\* taxonomy.setAcceptsRepeat(type)
CallSetAcceptsRepeat ==
  \E type \in TransactionTypes :
    /\ taxonomy' = setAcceptsRepeat(taxonomy, type)
    /\ UNCHANGED <<candidate, verdict, calls, found, walk>>
    /\ UNCHANGED contractVars
    /\ UNCHANGED organizationVars

NextRevalidate == CallValidate \/ CallValidateAgain \/ CallSetAcceptsRepeat

SpecRevalidate == InitRevalidate /\ [][NextRevalidate]_vars

\* ------------------------------------------------------------------------
\* Claims
\* ------------------------------------------------------------------------

\* Is an option called `name` part of the instance's inputs?
HasInput(name) == \E k \in 1..Len(contract.argv) : contract.argv[k].name = name

\* Some required argument of the instance is absent from its inputs.
SomeArgumentMissing ==
  \E k \in 1..Len(arguments(contract.name)) : ~HasInput(arguments(contract.name)[k])

\* The operators the instance was given.
GivenOperators == getInput(contract.argv, "operators", AccountsValue(<<>>)).accounts

\* The call returned an AllowanceResult with status true.
PositiveAuthorization == result.error = "none" /\ result.status = TRUE

\* The call went through the `transactions` getter.
BuilderInvoked == \E k \in 1..Len(result.trace) : result.trace[k] = "transactions"

\* C1 (as claimed): whenever execute succeeds on a contract that defines a
\* specification (CreateDAO with at least one operator), the produced
\* list validates against that contract's own specification.
C1_RoundTrip ==
  ( /\ call.method = "execute"
    /\ result.error = "none"
    /\ contract.name \in SpecifiedContracts
    /\ (contract.name = "CreateDAO" => Len(GivenOperators) >= 1) )
  => validate(specification(contract.name), result.transactions)

C4_MissingArgumentFirst ==
  ( call.method \in {"canExecute", "execute"} /\ SomeArgumentMissing )
  => ( result.error = "MissingArgument" /\ ~BuilderInvoked
       /\ result.transactions = <<>> )

\* C4 witness: execute was called on an instance that lacks an argument
\* and whose policy would refuse the actor.
C4_Witness ==
  /\ call.method = "execute"
  /\ SomeArgumentMissing
  /\ contract.name = "CreateAgreement"
  /\ contract.agreement # NoTransaction
  /\ result.error = "MissingArgument"

\* The authorization the instance gives to the actor of the call.
Authorization == canExecute(contract, call.actor, call.argv)

\* C5: canExecute never raises OperationForbidden: a refusal is returned
\* as status false.  Only execute turns the refusal into
\* OperationForbidden, and then nothing is built and nothing is wrapped.
C5_RefusalIsAValue ==
  /\ ( call.method = "canExecute" =>
         /\ result.error \in {"none", "MissingArgument"}
         /\ (~SomeArgumentMissing => result.error = "none") )
  /\ ( ( call.method = "execute" /\ Authorization.error = "none"
         /\ Authorization.status = FALSE )
       => ( result.error = "OperationForbidden" /\ ~BuilderInvoked
            /\ result.transactions = <<>> ) )
  /\ ( result.error = "OperationForbidden" =>
         ( call.method = "execute" /\ Authorization.error = "none"
           /\ Authorization.status = FALSE ) )

\* C5 witness: execute was refused on an instance whose arguments are all
\* present, and canExecute on the same instance returns status false.
C5_Witness ==
  /\ call.method = "execute"
  /\ ~SomeArgumentMissing
  /\ Authorization.error = "none" /\ Authorization.status = FALSE
  /\ result.error = "OperationForbidden"

\* The call wrapped a list into an aggregate bonded transaction.
UnitProduced == \E k \in 1..Len(result.trace) : result.trace[k] = "createBonded"

\* C6: execute with a positive authorization and an empty built list
\* raises EmptyContract and wraps nothing; CreateVote never completes
\* execute; the failures of one execute come in the order
\* MissingArgument, OperationForbidden, EmptyContract.
C6_EmptyContractLast ==
  call.method = "execute" =>
    /\ ( SomeArgumentMissing => result.error = "MissingArgument" )
    /\ ( (~SomeArgumentMissing /\ ~Authorization.status)
           => result.error = "OperationForbidden" )
    /\ ( ( ~SomeArgumentMissing /\ Authorization.status
           /\ ~transactionsRaise(contract) /\ Len(transactions(contract)) = 0 )
           => ( result.error = "EmptyContract" /\ ~UnitProduced
                /\ result.transactions = <<>> ) )
    /\ ( result.error = "EmptyContract" =>
           ( ~SomeArgumentMissing /\ Authorization.status ) )
    /\ ( contract.name = "CreateVote" => result.error # "none" )
    /\ ( result.error = "none" => Len(result.transactions) > 0 )

\* C6 witness: CreateVote was executed with its argument by an actor it
\* authorizes and failed on its empty list.
C6_Witness ==
  /\ call.method = "execute"
  /\ contract.name = "CreateVote"
  /\ ~SomeArgumentMissing
  /\ Authorization.status = TRUE
  /\ result.error = "EmptyContract"

\* The trace entries of the three best-effort reads.
MosaicEvents == { ReadEvent("getMosaic", f) : f \in BOOLEAN }

GraphEvents == { ReadEvent("getMultisigAccountGraphInfo", f) : f \in BOOLEAN }

MetadataEvents == { ReadEvent("readMetadataFromNetwork", f) : f \in BOOLEAN }

BestEffortEvents == MosaicEvents \cup GraphEvents \cup MetadataEvents

\* The trace entries of resolving, authorizing and building a contract.
ContractEvents ==
  {"getContext", "getContract", "populate", "canExecute",
   "assertHasMandatoryArguments", "policy", "transactions", "createBonded"}

Occurs(event, trace) == \E k \in 1..Len(trace) : trace[k] = event

IsBestEffortEvent(event) == event \in BestEffortEvents

\* The best-effort reads of a trace, in the order they were made.
ReadsOf(trace) == SelectSeq(trace, IsBestEffortEvent)

\* The descriptor a committed agreement carries for this organization.
CommitDescriptor == "Governable(v1):commit-agreement:" \o IdentifierId

\* The transfers of a three-part record both carry a message.
CarriesMessages(tx) ==
  Len(tx.innerTransactions) = 3 =>
    /\ tx.innerTransactions[2].message # NoMessage
    /\ tx.innerTransactions[3].message # NoMessage

\* A record is authentic: it is a confirmed aggregate bonded transaction
\* of three parts whose proof is the identifier's id, whose target
\* message is the target's public key and whose proof message is the
\* commit-agreement descriptor.
Authentic(tx) ==
  /\ tx # NoTransaction
  /\ tx.type = "AGGREGATE_BONDED"
  /\ Len(tx.innerTransactions) = 3
  /\ tx.confirmed
  /\ tx.innerTransactions[1].proof = IdentifierId
  /\ tx.innerTransactions[2].message = PublicKeyOf(TargetAccount)
  /\ tx.innerTransactions[3].message = CommitDescriptor

\* The synchronize of the finished execute raised: the read of the
\* agreement failed, or the record it returned did not verify.
SynchronizeRaised ==
  \/ Occurs("readTransaction:failed", last.trace)
  \/ Occurs("verifyAuthenticity", last.trace) /\ ~Authentic(agreement)

\* C3: execute runs synchronize to completion before it resolves and
\* authorizes the contract; when synchronize raises, execute raises the
\* same failure and no contract is resolved, authorized or built.
C3_SynchronizeFirst ==
  /\ ( sync.method = "execute" /\ sync.pc # "synchronized" =>
         \A k \in 1..Len(sync.trace) : sync.trace[k] \notin ContractEvents )
  /\ ( last.method = "execute" =>
         /\ last.trace[1] = "synchronize"
         /\ \A k \in 1..Len(last.trace) :
              last.trace[k] \in ContractEvents =>
                \E j \in 1..(k - 1) : last.trace[j] = "synchronized"
         /\ \A k \in 1..Len(last.trace) :
              last.trace[k] = "synchronized" =>
                \A j \in (k + 1)..Len(last.trace) :
                  last.trace[j] \in ContractEvents
         /\ ( SynchronizeRaised =>
                /\ last.error \in {"NetworkError", "InvalidAgreement", "TypeError"}
                /\ \A k \in 1..Len(last.trace) :
                     last.trace[k] \notin ContractEvents \cup {"synchronized"}
                /\ last.contract = "none"
                /\ last.size = 0 ) )

\* C3 witness: an execute ended on the InvalidAgreement its synchronize
\* raised.
C3_Witness ==
  /\ last.method = "execute"
  /\ SynchronizeRaised
  /\ last.error = "InvalidAgreement"

\* The trace of the call in flight after a step.
TraceAfter == IF sync'.pc = "idle" THEN last'.trace ELSE sync'.trace

\* The step on which the read of the agreement returns a record.
AgreementDelivered ==
  /\ sync.pc = "awaitAgreement"
  /\ sync'.pc # "awaitAgreement"
  /\ Occurs("readTransaction:ok", TraceAfter)

C8_ThreeReadsInOrder ==
  ( /\ last.method = "synchronize"
    /\ Occurs("readTransaction:ok", last.trace)
    /\ Authentic(agreement) )
  => ( /\ last.error = "none"
       /\ last.status = TRUE
       /\ Len(ReadsOf(last.trace)) = 3
       /\ ReadsOf(last.trace)[1] \in MosaicEvents
       /\ ReadsOf(last.trace)[2] \in GraphEvents
       /\ ReadsOf(last.trace)[3] \in MetadataEvents )

\* C8 witness: synchronize returned true although all three reads failed.
C8_Witness ==
  /\ last.method = "synchronize"
  /\ Authentic(agreement)
  /\ last.status = TRUE
  /\ ReadsOf(last.trace) =
       << ReadEvent("getMosaic", TRUE),
          ReadEvent("getMultisigAccountGraphInfo", TRUE),
          ReadEvent("readMetadataFromNetwork", TRUE) >>

\* The step on which a synchronize that passed verification ends.
SynchronizeCompletes == sync.pc = "awaitMetadata" /\ sync'.pc # "awaitMetadata"

\* C9 (as claimed): when a best-effort read fails, the field it feeds
\* holds after the call exactly the value it held before the call.
C9_PreviousValueKept ==
  [][ SynchronizeCompletes =>
        /\ ( Occurs(ReadEvent("getMosaic", TRUE), TraceAfter)
               => mosaicInfo' = sync.pre.mosaicInfo )
        /\ ( Occurs(ReadEvent("getMultisigAccountGraphInfo", TRUE), TraceAfter)
               => operators' = sync.pre.operators )
        /\ ( Occurs(ReadEvent("readMetadataFromNetwork", TRUE), TraceAfter)
               => metadata' = sync.pre.metadata ) ]_vars

\* C9 (amended): when the operator-graph read or the metadata read
\* fails, operators, respectively metadata, holds after the call exactly
\* the value it held before the call; when the asset-info read fails,
\* mosaicInfo is unset after the call, whatever it held before.
C9_PreviousValueOrUnset ==
  [][ SynchronizeCompletes =>
        /\ ( Occurs(ReadEvent("getMosaic", TRUE), TraceAfter)
               => mosaicInfo' = Undefined )
        /\ ( Occurs(ReadEvent("getMultisigAccountGraphInfo", TRUE), TraceAfter)
               => operators' = sync.pre.operators )
        /\ ( Occurs(ReadEvent("readMetadataFromNetwork", TRUE), TraceAfter)
               => metadata' = sync.pre.metadata ) ]_vars

\* C9 witness: all three reads of a synchronize failed on an organization
\* whose operators and metadata were set by an earlier synchronize; they
\* are still set, and mosaicInfo is unset.
C9_Witness ==
  /\ last.method = "synchronize"
  /\ ReadsOf(last.trace) =
       << ReadEvent("getMosaic", TRUE),
          ReadEvent("getMultisigAccountGraphInfo", TRUE),
          ReadEvent("readMetadataFromNetwork", TRUE) >>
  /\ operators # <<>>
  /\ metadata # NoMetadata
  /\ mosaicInfo = Undefined

\* C10: without agreement reference synchronize returns true at once,
\* reads nothing from the ledger and leaves agreement, operators,
\* metadata and mosaicInfo as they were (as constructed: nothing else
\* writes them).
C10_NothingToRead ==
  agreementHash \in {Undefined, ""} =>
    /\ Fields = NoFields
    /\ sync.pc \in {"idle", "synchronized"}
    /\ sync.trace \in {<<>>, <<"synchronize">>}
    /\ ( last.method = "synchronize" =>
           /\ last.error = "none"
           /\ last.status = TRUE
           /\ last.trace = <<"synchronize">> )
    /\ ( last.method = "execute" =>
           /\ last.trace[1] = "synchronize"
           /\ last.trace[2] = "synchronized" )

\* C10 witness: synchronize returned on an organization constructed with
\* an empty agreement hash.
C10_Witness ==
  /\ agreementHash = ""
  /\ last.method = "synchronize"
  /\ last.status = TRUE

\* The values sync.pc takes while synchronize rests at one of its reads.
AwaitPcs == {"awaitAgreement", "awaitMosaic", "awaitGraph", "awaitMetadata"}

\* C11: agreement, operators, metadata and mosaicInfo are written by
\* synchronize only: every step taken while no read of synchronize is
\* pending (canExecute, executeOffline, the start of synchronize, the
\* part of execute after synchronize) leaves them as they are, whatever
\* the contract did with the objects it was handed.
C11_OnlySynchronizeWrites ==
  [][ sync.pc \notin AwaitPcs => Fields' = Fields ]_vars

\* C11 witness: executeOffline built a list on an organization whose four
\* fields are set.
C11_Witness ==
  /\ last.method = "executeOffline"
  /\ last.error = "none"
  /\ agreement # NoTransaction
  /\ operators # <<>>
  /\ metadata # NoMetadata
  /\ mosaicInfo # Undefined

\* The outcomes of a set of attempts, without what they left behind.
OutcomesOf(tried) == { t.outcome : t \in tried }

\* C12: executeOffline does not call synchronize, and when the
\* synchronize of an execute left the four fields as they were, execute
\* has for every actor, contract name and inputs the outcome that
\* executeOffline has in that state: the same list or the same failure.
C12_OfflineIsExecuteWithoutSynchronize ==
  /\ ( last.method = "executeOffline" =>
         /\ sync.pc = "idle"
         /\ ~Occurs("synchronize", last.trace)
         /\ ~Occurs("readTransaction:ok", last.trace)
         /\ ~Occurs("readTransaction:failed", last.trace)
         /\ ReadsOf(last.trace) = <<>> )
  /\ ( ( sync.pc = "synchronized" /\ Fields = sync.pre ) =>
         \A actor \in Actors, name \in DispatchNames :
         \A argv \in OrganizationArgv(name) :
           OutcomesOf(executeTry(name, actor, argv))
             = OutcomesOf(executeOfflineTry(name, actor, argv)) )

\* C12 witness: the synchronize of an execute has returned and read
\* again what the organization already held, a verified agreement
\* included.
C12_Witness ==
  /\ sync.pc = "synchronized"
  /\ sync.method = "execute"
  /\ Fields = sync.pre
  /\ Authentic(agreement)
  /\ operators # <<>>

\* The names of the dispatch table.
DispatchTable ==
  {"CreateAgreement", "CommitAgreement", "CreateDAO", "CreateVote", "Vote"}

\* The last call was a dispatch that came as far as the contract name.
Dispatched ==
  /\ last.method \in {"canExecute", "execute", "executeOffline"}
  /\ last.contract # "none"

\* C13 (as claimed): a dispatch with a name outside the dispatch table
\* raises InvalidContract, before the synchronized fields are copied and
\* before any authorization runs.
C13_UnknownNameIsInvalidContract ==
  ( Dispatched /\ last.contract \notin DispatchTable ) =>
    /\ last.error = "InvalidContract"
    /\ \A k \in 1..Len(last.trace) :
         last.trace[k] \notin ContractEvents \ {"getContext", "getContract"}
    /\ last.size = 0

Validated == verdict # "pending"

\* The types of the entries of the taxonomy.
EntryTypes == { taxonomy.sequence[k].type : k \in 1..Len(taxonomy.sequence) }

\* C15: validate is false whenever the candidate has no operations or
\* the grammar has no entries, whatever the other argument is.
C15_EmptyIsRejected ==
  ( Validated /\ (Len(candidate) = 0 \/ Len(taxonomy.sequence) = 0) )
    => verdict = "false"

\* C15 witness: an empty candidate was rejected by a grammar whose only
\* entry is optional, so that no entry of the walk asks for an operation.
C15_Witness ==
  /\ verdict = "false"
  /\ candidate = <<>>
  /\ Len(taxonomy.sequence) = 1
  /\ taxonomy.sequence[1].required = FALSE

\* C16: if any operation of the candidate, wherever it stands, has a type
\* that is the type of no grammar entry, validate is false.
C16_ForeignTypeIsRejected ==
  ( Validated /\ \E k \in 1..Len(candidate) : candidate[k].type \notin EntryTypes )
    => verdict = "false"

\* C16 witness: the three operations of CommitAgreement in order, followed
\* by an operation of a type the grammar does not have, were rejected.
C16_Witness ==
  /\ verdict = "false"
  /\ taxonomy = CommitAgreementSpecification
  /\ candidate = << [type |-> "SECRET_PROOF"], [type |-> "TRANSFER"],
                    [type |-> "TRANSFER"], [type |-> "ACCOUNT_METADATA"] >>

\* The grammar is made of required entries only and has no repeatable
\* bundle.
RequiredOnly ==
  /\ \A k \in 1..Len(taxonomy.sequence) : taxonomy.sequence[k].required
  /\ \A i \in DOMAIN taxonomy.semantics : ~taxonomy.semantics[i].repeatable

\* C17: for a grammar of required, non-repeatable entries a candidate of
\* the same length validates true exactly when its type at every
\* position is the type of the entry at that position.
C17_RequiredOnlyIsPositional ==
  ( Validated /\ RequiredOnly /\ Len(taxonomy.sequence) >= 1
    /\ Len(candidate) = Len(taxonomy.sequence) )
    => ( verdict = "true" <=>
           \A k \in 1..Len(candidate) :
             candidate[k].type = taxonomy.sequence[k].type )

\* C17 witness: the operations of CommitAgreement with the first two
\* swapped were rejected by its grammar.
C17_Witness ==
  /\ verdict = "false"
  /\ taxonomy = CommitAgreementSpecification
  /\ candidate = << [type |-> "TRANSFER"], [type |-> "SECRET_PROOF"],
                    [type |-> "TRANSFER"] >>

\* The grammar has one entry, which is optional and not repeatable.
OneOptionalEntry ==
  /\ Len(taxonomy.sequence) = 1
  /\ taxonomy.sequence[1].required = FALSE
  /\ DOMAIN taxonomy.semantics = {}

\* No operation of the candidate has the type of the first entry.
OmitsFirstType ==
  \A k \in 1..Len(candidate) : candidate[k].type # taxonomy.sequence[1].type

\* The candidate is one operation of the type of the first entry.
IsFirstTypeOnly ==
  /\ Len(candidate) = 1
  /\ candidate[1].type = taxonomy.sequence[1].type

\* C18 (as claimed): for a grammar whose only entry is optional of type
\* T, validate is true when the candidate omits T and when the candidate
\* is exactly T.
C18_OptionalMayBeOmitted ==
  ( Validated /\ OneOptionalEntry /\ (OmitsFirstType \/ IsFirstTypeOnly) )
    => verdict = "true"

\* C18 (amended): for a grammar whose only entry is optional of type T,
\* validate is true when the candidate is exactly T, and false when the
\* candidate omits T: it is then empty or made of types the grammar does
\* not have.
C18_OptionalAloneMustAppear ==
  ( Validated /\ OneOptionalEntry ) =>
    /\ ( IsFirstTypeOnly => verdict = "true" )
    /\ ( OmitsFirstType => verdict = "false" )

\* C18 witness: a candidate of one operation of another type was rejected
\* by the grammar of one optional entry.
C18_Witness ==
  /\ OneOptionalEntry
  /\ Len(candidate) = 1
  /\ OmitsFirstType
  /\ verdict = "false"

\* The first entry of the grammar is required and opens a repeatable
\* bundle.
FirstEntryRepeatable ==
  /\ Len(taxonomy.sequence) >= 1
  /\ taxonomy.sequence[1].required
  /\ 0 \in DOMAIN taxonomy.semantics
  /\ taxonomy.semantics[0].repeatable

\* The number of entries of the bundle that the first entry opens.
FirstBundleSize ==
  IF Len(taxonomy.semantics[0].bundleWith) > 1
    THEN Len(taxonomy.semantics[0].bundleWith) ELSE 1

\* The grammar is one repeatable bundle and nothing else.
OneBundle ==
  /\ FirstEntryRepeatable
  /\ Len(taxonomy.sequence) = FirstBundleSize

\* The operations of the candidate from position `from` on are one full
\* occurrence of the bundle of the first entry.
BundleAt(from) ==
  /\ from + FirstBundleSize - 1 <= Len(candidate)
  /\ \A k \in 1..FirstBundleSize :
       candidate[from + k - 1].type = taxonomy.sequence[k].type

\* Every operation of the candidate has the type of some entry.
TypesAccepted ==
  \A k \in 1..Len(candidate) : candidate[k].type \in EntryTypes

C20_TrailingOperationIsRejected ==
  ( Validated /\ OneBundle /\ FirstBundleSize = 2
    /\ Len(candidate) = 7
    /\ BundleAt(1) /\ BundleAt(3) /\ BundleAt(5)
    /\ candidate[7].type # taxonomy.sequence[1].type )
    => verdict = "false"

\* The target the instance was given.
GivenTarget == getInput(contract.argv, "target", AccountValue(Undefined)).account

\* The instance with another list of operators.
WithOperators(n) ==
  [contract EXCEPT !.operators = [k \in 1..n |-> AddressOf(OperatorPool[k])]]

C22_CreateDAOAllowance ==
  ( /\ call.method = "canExecute"
    /\ contract.name = "CreateDAO"
    /\ HasInput("target") /\ HasInput("operators") /\ HasInput("metadata") )
  => /\ result.error = "none"
     /\ result.status = ( /\ contract.agreement # NoTransaction
                          /\ AddressOf(GivenTarget) = AddressOf(contract.target) )
     /\ result.value = (IF result.status THEN "true" ELSE "false")
     /\ \A actor \in Actors : canExecute(contract, actor, call.argv) = result

\* C22 witness: a CreateDAO that holds an agreement refused an actor
\* because the given target is not the deterministic target.
C22_Witness ==
  /\ call.method = "canExecute"
  /\ contract.name = "CreateDAO"
  /\ HasInput("target") /\ HasInput("operators") /\ HasInput("metadata")
  /\ contract.agreement # NoTransaction
  /\ GivenTarget = OtherAccount
  /\ result.error = "none" /\ result.status = FALSE

\* C23 (as claimed): canExecute of CreateAgreement on a context that holds
\* password, mnemonic, agreementPath and operators returns status true
\* when no agreement is set on the contract and status false when one is
\* set, for every actor.
C23_DocumentedInputsSuffice ==
  ( /\ call.method = "canExecute"
    /\ contract.name = "CreateAgreement"
    /\ HasInput("password") /\ HasInput("mnemonic")
    /\ HasInput("agreementPath") /\ HasInput("operators") )
  => /\ result.error = "none"
     /\ result.status = (contract.agreement = NoTransaction)

\* C24 (as claimed): canExecute of the operators-only contract, asked by
\* an actor whose address is not among the contract's operators, returns
\* an AllowanceResult whose status is the boolean false.
C24_NonOperatorGetsFalse ==
  ( /\ call.method = "canExecute"
    /\ contract.name = OperatorsCommitAgreement
    /\ ~SomeArgumentMissing
    /\ \A k \in 1..Len(contract.operators) :
         contract.operators[k] # AddressOf(call.actor) )
  => /\ result.error = "none"
     /\ result.value = "false"

\* execute returned the wrapped list of the instance.
Executed == call.method = "execute" /\ result.error = "none"

\* The kebab-case form of the name each contract class returns.
KebabCase(name) ==
  CASE name = "CreateAgreement" -> "create-agreement"
    [] name = "CommitAgreement" -> "commit-agreement"
    [] name = OperatorsCommitAgreement -> "commit-agreement"
    [] name = "CreateDAO" -> "create-dao"
    [] name = "CreateVote" -> "create-vote"

\* The descriptor the documentation gives for the instance.
DocumentedDescriptor ==
  "Governable(v" \o ToString(contract.revision) \o "):"
    \o KebabCase(contract.name) \o ":" \o contract.id

\* C25: the descriptor of every contract is 'Governable(v' + revision +
\* '):' + kebab-case name + ':' + identifier; the last operation of a list
\* that execute built is a transfer whose message is exactly that
\* descriptor, and the wrapped unit holds the built operations in the
\* order in which they were built.
C25_DescriptorIsTheProof ==
  /\ descriptor(contract) = DocumentedDescriptor
  /\ Executed =>
       /\ Len(result.transactions) >= 1
       /\ result.transactions[Len(result.transactions)].type = "TRANSFER"
       /\ result.transactions[Len(result.transactions)].message
            = DocumentedDescriptor
       /\ Len(result.transactions) = Len(transactions(contract))
       /\ \A k \in 1..Len(result.transactions) :
            result.transactions[k] = transactions(contract)[k]

\* C25 witness: CreateDAO was executed for two operators and the last
\* operation of the unit carries the descriptor.
C25_Witness ==
  /\ Executed
  /\ contract.name = "CreateDAO"
  /\ Len(GivenOperators) = 2
  /\ result.transactions[Len(result.transactions)].message
       = "Governable(v1):create-dao:9e03faed"

\* The metadata the instance was given.
GivenMetadata == getInput(contract.argv, "metadata", BucketValue(EmptyBucket)).bucket

\* The indexes of the non-empty fields of the given metadata, and the
\* k-th of them in field order.
FilledFields == { k \in 1..Len(MetadataFields) : GivenMetadata[MetadataFields[k]] # "" }

FilledField(k) ==
  CHOOSE f \in FilledFields : Cardinality({ g \in FilledFields : g <= f }) = k

\* The types of the eight operations CreateDAO always builds first.
FixedTypes ==
  << "MULTISIG_ACCOUNT_MODIFICATION", "MOSAIC_DEFINITION", "MOSAIC_SUPPLY_CHANGE",
     "ACCOUNT_MOSAIC_RESTRICTION", "MOSAIC_GLOBAL_RESTRICTION",
     "MOSAIC_ADDRESS_RESTRICTION", "MOSAIC_METADATA", "ACCOUNT_METADATA" >>

\* C26: CreateDAO with n operators and m non-empty metadata fields builds
\* 9 + m + 2n operations: the 8 fixed ones, the m metadata operations in
\* field order, for each operator in input order an address restriction
\* and next to it a transfer, and one final proof transfer; the issued
\* supply and the approval count of the multisig are n.
C26_CreateDAOList ==
  ( Executed /\ contract.name = "CreateDAO" ) =>
    LET n   == Len(GivenOperators)
        m   == Cardinality(FilledFields)
        txs == result.transactions
    IN  /\ Len(txs) = 9 + m + 2 * n
        /\ \A k \in 1..8 : txs[k].type = FixedTypes[k]
        /\ \A k \in 1..m :
             /\ txs[8 + k].type = "ACCOUNT_METADATA"
             /\ txs[8 + k].message = GivenMetadata[MetadataFields[FilledField(k)]]
        /\ \A i \in 1..n :
             /\ txs[8 + m + 2 * i - 1].type = "MOSAIC_ADDRESS_RESTRICTION"
             /\ txs[8 + m + 2 * i - 1].recipient = AddressOf(GivenOperators[i])
             /\ txs[8 + m + 2 * i].type = "TRANSFER"
             /\ txs[8 + m + 2 * i].recipient = AddressOf(GivenOperators[i])
        /\ txs[9 + m + 2 * n].type = "TRANSFER"
        /\ txs[9 + m + 2 * n].message = descriptor(contract)
        /\ txs[1].amount = n
        /\ txs[3].amount = n

\* C26 witness: CreateDAO built 19 operations for two operators and six
\* metadata fields.
C26_Witness ==
  /\ Executed
  /\ contract.name = "CreateDAO"
  /\ Len(GivenOperators) = 2
  /\ Cardinality(FilledFields) = 6
  /\ Len(result.transactions) = 19

\* The issuer the documentation names for the k-th operation of the
\* instance.
DocumentedIssuer(k) ==
  CASE contract.name = "CreateDAO" -> contract.target
    [] contract.name \in {"CommitAgreement", OperatorsCommitAgreement} ->
         getInput(contract.argv, "agreement", AccountValue(Undefined)).account
    [] contract.name = "CreateAgreement" ->
         IF result.transactions[k].type = "SECRET_LOCK"
           THEN (IF Len(GivenOperators) >= 1 THEN GivenOperators[1] ELSE Undefined)
           ELSE AgreementAccount
    [] OTHER -> Undefined

\* C27 (as claimed): every operation of a list that a contract built from
\* inputs that pass the check of mandatory arguments, an empty list of
\* operators included, has a defined issuer: the target for CreateDAO, the
\* given agreement account for CommitAgreement, the derived agreement
\* account for CreateAgreement except for the secret lock, whose issuer is
\* the first operator.
C27_EveryOperationHasAnIssuer ==
  Executed =>
    \A k \in 1..Len(result.transactions) :
      /\ result.transactions[k].signer # Undefined
      /\ result.transactions[k].signer = DocumentedIssuer(k)

\* The positions of the options called `name` in a list of options.
Hits(argv, name) == { k \in 1..Len(argv) : argv[k].name = name }

Verified(tx) ==
  verifyAuthenticity(Revision, IdentifierId, TargetAccount, tx) = "true"

\* C30 (as claimed): whatever calls of synchronize, canExecute, execute
\* and executeOffline were made, an agreement field that is set holds a
\* record that passed verifyAuthenticity; a record that failed it is not
\* there for a later canExecute or executeOffline.
C30_SetAgreementIsVerified ==
  ( /\ agreement # NoTransaction
    /\ last.method \in {"canExecute", "executeOffline"} )
  => Verified(agreement)

\* validate reached its structure loop for the taxonomy and the aggregate.
Walked ==
  /\ Validated
  /\ Len(candidate) > 0
  /\ \A k \in 1..Len(candidate) : acceptsType(taxonomy, candidate[k].type)

\* The passes of the structure loop of that call.
Steps == walkSteps(taxonomy, candidate, 0, 0, 0)

\* C31 (as claimed): after a repeatable bundle of length k at position i
\* matched n >= 1 times from candidate index c on, the next entry that
\* validate checks is the one at position i + k, and it is compared with
\* the candidate at index c + n * k.
C31_EntryAfterBundleIsNext ==
  Walked =>
    \A j \in 1..Len(Steps) :
      ( /\ Steps[j].branch = "repeatable"
        /\ Steps[j].numOccurences >= 1
        /\ Steps[j].i + Steps[j].size < Len(taxonomy.sequence) )
      => /\ j < Len(Steps)
         /\ Steps[j + 1].i = Steps[j].i + Steps[j].size
         /\ Steps[j + 1].cursor
              = Steps[j].cursor + Steps[j].numOccurences * Steps[j].size

\* The positions of the optional entries of the taxonomy.
OptionalPositions ==
  { k \in 1..Len(taxonomy.sequence) : taxonomy.sequence[k].required = FALSE }

\* The types of the entries from position k on, those at the positions
\* `left` left out.
RECURSIVE TypesWithout(_, _)
TypesWithout(left, k) ==
  IF k > Len(taxonomy.sequence) THEN <<>>
  ELSE (IF k \in left THEN <<>> ELSE <<taxonomy.sequence[k].type>>)
       \o TypesWithout(left, k + 1)

\* The aggregate is a full match of the taxonomy from which the
\* operations of some optional entries were left out.
OmitsOptionalsOnly ==
  \E left \in SUBSET OptionalPositions :
    TypesOf(candidate) = TypesWithout(left, 1)

\* C32 (as claimed): for a taxonomy without repeatable rules, a non-empty
\* aggregate that is a full match from which the operations of any
\* optional entries were left out validates true, also when an optional
\* entry has the type of the required entry next to it.
C32_OptionalsMayBeLeftOut ==
  ( /\ Validated
    /\ DOMAIN taxonomy.semantics = {}
    /\ Len(candidate) >= 1
    /\ OmitsOptionalsOnly )
  => verdict = "true"

\* The proper prefixes of the candidate that validate on their own.
ValidPrefixes ==
  { n \in 1..(Len(candidate) - 1) : validate(taxonomy, SubSeq(candidate, 1, n)) }

\* C33: validate has no consumption check: when an aggregate validates,
\* the same aggregate followed by further transactions of accepted types
\* validates as well.
C33_TrailingTransactionsAreIgnored ==
  ( /\ Validated
    /\ \A k \in 1..Len(candidate) : acceptsType(taxonomy, candidate[k].type)
    /\ ValidPrefixes # {} )
  => verdict = "true"

C33_Witness ==
  /\ Validated
  /\ verdict = "true"
  /\ Len(taxonomy.sequence) = 2
  /\ DOMAIN taxonomy.semantics = {}
  /\ Len(candidate) = 4
  /\ 2 \in ValidPrefixes

\* Do the first n * k transactions exist and match the k entries of the
\* bundle, in order, n times over?
OccursTimes(entries, trxes, n) ==
  /\ n * Len(entries) <= Len(trxes)
  /\ \A j \in 0..(n * Len(entries) - 1) :
        trxes[j + 1].type = entries[(j % Len(entries)) + 1].type

\* C34: validateBundle on k >= 1 entries returns the greatest n such that
\* the first n * k transactions exist and match the entries in order; a
\* partial repetition at the tail is not counted, and neither the
\* entries nor the transactions are changed.
C34_ValidateBundleCountsFullOccurrences ==
  [][ (found' # found /\ Len(taxonomy.sequence) >= 1) =>
        /\ candidate' = candidate
        /\ taxonomy' = taxonomy
        /\ found' >= 0
        /\ OccursTimes(taxonomy.sequence, candidate, found')
        /\ \A n \in 0..Len(candidate) :
              OccursTimes(taxonomy.sequence, candidate, n) => n <= found' ]_vars

C34_Witness ==
  /\ found = 2
  /\ Len(taxonomy.sequence) = 2
  /\ taxonomy.sequence[1].type # taxonomy.sequence[2].type
  /\ Len(candidate) = 5
  /\ candidate[5].type = taxonomy.sequence[1].type

\* C35: validate and validateBundle terminate on every grammar keyed
\* 0..n-1 and every finite aggregate: a call of validate that was entered
\* returns (with the value of validate), the index into the sequence
\* grows with every pass of the loop, and so does the count of
\* validateBundle, whose loop ends at the first missing or mismatching
\* transaction.
C35_ValidateTerminates ==
  /\ <>( /\ walk.pc = "done"
         /\ verdict = IF validate(taxonomy, candidate) THEN "true" ELSE "false" )
  /\ [][ /\ (walk.pc \in {"loop", "bundle"} /\ walk'.pc = "loop")
             => walk'.i > walk.i
         /\ (walk.pc = "bundle" /\ walk'.pc = "bundle")
             => /\ walk'.cntFound = walk.cntFound + 1
                /\ walk'.cntFound * Len(walk.entries) <= Len(walk.trxes) ]_vars

C35_Witness ==
  /\ walk.pc = "done"
  /\ verdict = "true"
  /\ walk.bundled >= 2
  /\ walk.skip >= 1

\* The contracts of the agreement phase.
AgreementPhase == {"CreateAgreement", "CommitAgreement", OperatorsCommitAgreement}

\* A contract of another class built on the state of the contract at
\* hand (its agreement, operators, target) with inputs of its own.
Sibling(name, argv) == [contract EXCEPT !.name = name, !.argv = argv]

\* Inputs of a sibling: each input absent or present, the target also
\* with another account than the organization's.
RECURSIVE SiblingInputs(_, _)
SiblingInputs(names, k) ==
  IF k > Len(names) THEN {<<>>}
  ELSE { head \o tail :
           head \in {<<>>, <<TestOption(names[k])>>} \cup
                    (IF names[k] = "target"
                       THEN {<<ContractOption("target", AccountValue(OtherAccount))>>}
                       ELSE {}),
           tail \in SiblingInputs(names, k + 1) }

\* Is a contract of that class authorized in the state of the contract
\* at hand, for some inputs, actor and passed argv?
AuthorizedInThisState(name) ==
  \E argv \in SiblingInputs(InputNames(name), 1), actor \in Actors,
     passed \in PassedArgv(name) :
    canExecute(Sibling(name, argv), actor, passed).status = TRUE

\* C36: lifecycle exclusion: in a state in which CreateDAO.canExecute
\* returns status true, canExecute of CreateAgreement and of
\* CommitAgreement gives status true for no inputs and no actor (it
\* returns status false, or raises for a missing argument before the
\* policy is asked), and conversely: the contracts of the agreement
\* phase and CreateDAO are never authorized in the same state.
C36_LifecycleExclusion ==
  ( call.method = "canExecute" /\ PositiveAuthorization ) =>
    /\ contract.name = "CreateDAO" =>
          \A name \in AgreementPhase : ~AuthorizedInThisState(name)
    /\ contract.name \in AgreementPhase => ~AuthorizedInThisState("CreateDAO")

C36_Witness ==
  /\ call.method = "canExecute"
  /\ PositiveAuthorization
  /\ contract.name = "CreateDAO"
  /\ \E argv \in SiblingInputs(InputNames("CommitAgreement"), 1) :
       LET refusal == canExecute(Sibling("CommitAgreement", argv), call.actor, <<>>)
       IN  refusal.error = "none" /\ refusal.status = FALSE

C37_CommittedAgreementIsAuthentic ==
  ( Executed /\ contract.name \in {"CommitAgreement", OperatorsCommitAgreement} ) =>
    verifyAuthenticity(contract.revision, contract.id, contract.target,
                       Confirmed(AggregateOf(result))) = "true"

C37_Witness ==
  /\ Executed
  /\ contract.name = "CommitAgreement"
  /\ Len(result.transactions) = 3
  /\ result.transactions[1].proof = contract.id
  /\ verifyAuthenticity(contract.revision, contract.id, contract.target,
                        AggregateOf(result)) = "false"
  /\ verifyAuthenticity(contract.revision, contract.id, contract.target,
                        Confirmed(AggregateOf(result))) = "true"

\* A call was made, and built a contract, while the synchronize in
\* flight was suspended.
BuiltWhileSuspended ==
  /\ call.method \in {"canExecute", "executeOffline"}
  /\ contract.name = last.contract
  /\ contract.name \in DigitalContracts

\* C39: snapshot atomicity under interleaving: when canExecute or
\* executeOffline ran while synchronize was suspended at an awaited read,
\* the agreement, operators, metadata and mosaicInfo copied into the fresh
\* contract are all the values from before that synchronize or all the
\* values it ends with, never a mixture.
C39_SnapshotIsAtomic ==
  [][ ( /\ sync.pc \in AwaitPcs
        /\ sync'.pc \notin AwaitPcs
        /\ BuiltWhileSuspended )
      => \/ heldAfter(contract) = sync.pre
         \/ heldAfter(contract) =
              [agreement |-> agreement', mosaicInfo |-> mosaicInfo',
               operators |-> operators', metadata |-> metadata'] ]_vars

====
